---- MODULE Spec2Model ----
(***************************************************************************)
(* State-machine model of the document ingestion / retrieval pipeline:     *)
(*   - upload handler and background ingestion (upload/route.ts)           *)
(*   - embedding client with batching and retries (embeddings module)      *)
(*   - vector index operations (vector-store.ts)                           *)
(*   - groundedness gate (groq.ts) and chat handler (chat route)           *)
(*   - document delete endpoint                                            *)
(* Scores are integers in thousandths (700 stands for 0.7).                *)
(***************************************************************************)
EXTENDS Integers, Sequences, FiniteSets, TLC

\* ------------------------------------------------------------------------
\* Program constants
\* ------------------------------------------------------------------------
EmbedBatchSize == 96
EmbedRetries == 3
UpsertBatchSize == 100
UpsertRetries == 3
ChunkInsertBatchSize == 100
DefaultTopK == 5
DefaultMinScore == 700
GateMinAvgScore == 700
GateMinSources == 2
ChatTopK == 5
ChatMinScore == 700
HistoryLimit == 6
ConfidenceCap == 95
BackoffBaseMs == 1000
BackoffMaxMs == 5000

\* ------------------------------------------------------------------------
\* Bounds of the model
\* ------------------------------------------------------------------------
MaxTexts == 4          \* longest text list given directly to the embedding client
MaxBatchSize == 3      \* largest batch size given directly to the embedding client
IterCap == 2           \* passes of the embedding loop counted beyond one per text,
                       \* and how far the loop index is followed below zero
MaxVectors == 4        \* vectors that may be stored when a query is made
MaxSources == 3        \* longest source list given directly to the gate
MaxFragments == 3      \* fragments the language model streams at most
MaxChars == 5          \* longest text given to cleanLegalText
MaxSplitChars == 5     \* longest text given to chunkDocument
MaxChunkSize == 3      \* largest chunkSize option given to chunkDocument

DocIds == {"d1", "d2"}
\* the document of the runs that follow one ingestion on its own
SoloDocs == {"d1"}
UserIds == {"u1", "u2"}
Uploaders == {"u1"}
\* numbers of chunks the splitter yields for an uploaded text: none, one, and
\* enough for two embedding sub-batches (> 96) and two upsert and insert
\* batches (> 100)
ChunkCounts == {0, 1, UpsertBatchSize + 1}
BatchSizes == (0 - 1) .. MaxBatchSize
Callers == DocIds \cup {"direct"}

VARIABLES
    documents,   \* documents table: DocIds -> row (status "absent" = no row)
    chunkRecs,   \* document_chunks table: set of rows
    index,       \* vector index: set of stored vectors
    indexStatus, \* the index of the configured name at the provider: "absent",
                 \* "initializing" (created, not ready yet) or "ready"
    nextVid,     \* source of fresh vector ids (uuidv4)
    ing,         \* per document: the processDocumentAsync activation
    ups,         \* per document: the upsertVectors activation
    pending,     \* per document: un-awaited progress updates still in flight
    emb,         \* per caller: the generateEmbeddingsBatch activation
    sim,         \* vector id -> similarity of that vector to the query embedding
    qry,         \* the latest queryVectors call and what it returned
    gate,        \* the latest analyzeQuery call and what it returned
    chat,        \* the chat handler's activation (one chat turn)
    messages,    \* messages table of the conversation, in creation order
    norm,        \* a text and what cleanLegalText made of it, once and twice
    comp,        \* one question put to both answer generators of groq.ts
    split,       \* a text given to chunkDocument and the chunks it returned
    del          \* one deleteDocumentVectors call and the index it found

vars == <<documents, chunkRecs, index, indexStatus, nextVid, ing, ups, pending, emb,
          sim, qry, gate, chat, messages, norm, comp, split, del>>
ingestVars == <<documents, chunkRecs, indexStatus, nextVid, ing, ups, pending, emb>>
askVars == <<sim, qry, gate, chat, messages>>
textVars == <<norm, comp, split, del>>

\* ------------------------------------------------------------------------
\* Helpers
\* ------------------------------------------------------------------------
Min(a, b) == IF a <= b THEN a ELSE b
Max(a, b) == IF a >= b THEN a ELSE b

RECURSIVE Pow2(_)
Pow2(n) == IF n <= 0 THEN 1 ELSE 2 * Pow2(n - 1)

\* Array.prototype.slice(start, end) on a 0-based array held as a sequence
JsSlice(s, start, end) ==
    LET len == Len(s)
        a == IF start < 0 THEN Max(len + start, 0) ELSE Min(start, len)
        b == IF end < 0 THEN Max(len + end, 0) ELSE Min(end, len)
    IN IF b > a THEN [k \in 1..(b - a) |-> s[a + k]] ELSE <<>>

\* Math.floor(i / n) + 1 and Math.ceil(len / n) for n > 0 (0 stands for NaN/Infinity)
BatchNumber(i, n) == IF n > 0 THEN (i \div n) + 1 ELSE 0
TotalBatches(len, n) == IF n > 0 THEN (len + n - 1) \div n ELSE 0

\* the metadata column of a documents row; kind is "none" (never written),
\* "progress" (processingStep / progress), "failed" (error) or "completed"
\* (totalChunks, wordCount); timestamps and durations are left out
Meta(kind, step, cur, total, error, n) ==
    [kind |-> kind, step |-> step, cur |-> cur, total |-> total, error |-> error,
     totalChunks |-> n]
NoMeta == Meta("none", "", 0, 0, "", 0)

\* rows and activations that do not exist (yet)
NoDoc == [user_id |-> "", status |-> "absent", total_chunks |-> 0, metadata |-> NoMeta]
NoFile == [blank |-> TRUE, n |-> 0]
\* the response of the upload request: HTTP status and the document status it
\* reports (status 0: no response sent)
UploadResponse(status, docStatus) == [status |-> status, docStatus |-> docStatus]
NoUploadResponse == UploadResponse(0, "")
\* response is what the POST that started the activation answered, promise
\* the state of the promise processDocumentAsync returned to it, reached the
\* calls made so far: "embed" (a request sent to the embedding provider),
\* "embedded" (generateEmbeddingsBatch settled), "upsert" (upsertVectors
\* called), "insert" (an insert into document_chunks sent); oversize and
\* offType say whether the file of that POST was above the size limit and of
\* a type outside the allowed ones; finalNote what became of the last awaited
\* progress update ("Finalizing...")
IngIdle ==
    [pc |-> "idle", user |-> "", file |-> NoFile, chunks |-> <<>>, embeddings |-> <<>>,
     vectorIds |-> <<>>, i |-> 0, err |-> "", failWrite |-> "none",
     response |-> NoUploadResponse, promise |-> "none", reached |-> {},
     oversize |-> FALSE, offType |-> FALSE, finalNote |-> "none"]
\* delay: the wait before the next attempt that is running (ms)
UpsIdle == [pc |-> "idle", i |-> 0, retries |-> 0, ids |-> <<>>, conflict |-> FALSE,
            delay |-> 0]

\* ------------------------------------------------------------------------
\* Text normalisation: cleanLegalText (document-processor.ts)
\* ------------------------------------------------------------------------
\* A text is a sequence of characters; the characters told apart are a letter
\* "a", a digit "1", a double quote "q", the space "sp", the line feed "nl",
\* the zero-width space U+200B "zw" and the byte order mark U+FEFF "bom".
Chars == {"a", "1", "q", "sp", "nl", "zw", "bom"}

\* \s of a JavaScript regular expression (U+FEFF is white space; U+200B is not)
SpaceChars == {"sp", "nl", "bom"}
IsSpace(c) == c \in SpaceChars
\* \d
DigitChars == {"1"}
\* [\u200B-\u200D\uFEFF]
IsZeroWidth(c) == c \in {"zw", "bom"}

\* first position from j on that is past the end or holds no character of
\* the class (the end of a greedy class* started at j)
RunEnd(s, j, class) ==
    CHOOSE k \in j..(Len(s) + 1) :
        /\ \A x \in j..(k - 1) : s[x] \in class
        /\ k = Len(s) + 1 \/ s[k] \notin class

\* .replace(/\s+/g, " ")
RECURSIVE CollapseWhitespace(_)
CollapseWhitespace(s) ==
    IF Len(s) = 0 THEN <<>>
    ELSE IF IsSpace(s[1])
         THEN <<"sp">> \o CollapseWhitespace(SubSeq(s, RunEnd(s, 1, SpaceChars), Len(s)))
         ELSE <<s[1]>> \o CollapseWhitespace(Tail(s))

\* the last position of a match of /\n\s*\d+\s*\n/ that starts at i, 0 if none
PageNumberEnd(s, i) ==
    IF s[i] # "nl" THEN 0
    ELSE LET j == RunEnd(s, i + 1, SpaceChars)
             k == RunEnd(s, j, DigitChars)
             m == RunEnd(s, k, SpaceChars)
             ends == {e \in k..(m - 1) : s[e] = "nl"}
         IN IF k > j /\ ends # {}
            THEN CHOOSE e \in ends : \A x \in ends : x <= e
            ELSE 0

\* .replace(/\n\s*\d+\s*\n/g, "\n"), from position i on
RECURSIVE RemovePageNumbers(_, _)
RemovePageNumbers(s, i) ==
    IF i > Len(s) THEN <<>>
    ELSE IF PageNumberEnd(s, i) > 0
         THEN <<"nl">> \o RemovePageNumbers(s, PageNumberEnd(s, i) + 1)
         ELSE <<s[i]>> \o RemovePageNumbers(s, i + 1)

\* .replace(/["]/g, '"'): the class of the source holds the straight quote only
NormalizeQuotes(s) == [k \in 1..Len(s) |-> IF s[k] = "q" THEN "q" ELSE s[k]]

\* .replace(/[\u200B-\u200D\uFEFF]/g, "")
RemoveZeroWidth(s) == SelectSeq(s, LAMBDA c : ~IsZeroWidth(c))

\* .trim(): white space and line terminators off both ends
Trim(s) ==
    LET keep == {k \in 1..Len(s) : ~IsSpace(s[k])}
    IN IF keep = {} THEN <<>>
       ELSE SubSeq(s, CHOOSE a \in keep : \A x \in keep : a <= x,
                      CHOOSE b \in keep : \A x \in keep : x <= b)

\* cleanLegalText(text)
CleanLegalText(text) ==
    Trim(RemoveZeroWidth(NormalizeQuotes(
        RemovePageNumbers(CollapseWhitespace(text), 1))))

NormIdle == [pc |-> "idle", text |-> <<>>, once |-> <<>>, twice |-> <<>>]

\* cleanLegalText applied to the text at hand
CleanOnce ==
    /\ norm.pc = "given"
    /\ norm' = [norm EXCEPT !.pc = "once", !.once = CleanLegalText(norm.text)]
    /\ UNCHANGED ingestVars
    /\ UNCHANGED <<index, sim, qry, gate, chat, messages, comp, split, del>>

\* cleanLegalText applied to its own result
CleanAgain ==
    /\ norm.pc = "once"
    /\ norm' = [norm EXCEPT !.pc = "twice", !.twice = CleanLegalText(norm.once)]
    /\ UNCHANGED ingestVars
    /\ UNCHANGED <<index, sim, qry, gate, chat, messages, comp, split, del>>

\* ------------------------------------------------------------------------
\* chunkDocument (document-processor.ts): the text goes to the library's
\* RecursiveCharacterTextSplitter; every piece it returns becomes a chunk with
\* its index and two computed offsets
\* ------------------------------------------------------------------------
\* a text of n characters; each character is named by its position, so two
\* slices are equal only when they are the same slice
SplitText(n) == [k \in 1..n |-> k]

\* chunkSize / chunkOverlap options (chunkOverlap below chunkSize)
ChunkOptions ==
    {[chunkSize |-> cs, chunkOverlap |-> co] : cs \in 2..MaxChunkSize, co \in 0..1}

\* What splitter.createDocuments may return for a text of n characters, each
\* piece given by where it starts in the text and how long it is: nothing for
\* the empty text, the whole text when it fits into one chunk, and otherwise
\* pieces of at most chunkSize characters in text order, the first at the
\* start and the last at the end of the text, a piece beginning at most
\* chunkOverlap characters before the end of the one before it (overlap) and
\* at most one character after it (a separator dropped between the two).
RECURSIVE PiecesFrom(_, _, _, _, _)
PiecesFrom(start, prevEnd, n, size, overlap) ==
    UNION {
        IF start + len = n
        THEN {<<[start |-> start, len |-> len]>>}
        ELSE UNION {
                {<<[start |-> start, len |-> len]>> \o rest :
                    rest \in PiecesFrom(nxt, start + len, n, size, overlap)} :
                nxt \in {x \in (start + 1)..(start + len + 1) :
                            x >= start + len - overlap /\ x < n} }
        : len \in {l \in 1..size : start + l <= n /\ start + l > prevEnd} }

Splittings(n, size, overlap) ==
    IF n = 0 THEN {<<>>}
    ELSE IF n <= size THEN {<<[start |-> 0, len |-> n]>>}
    ELSE PiecesFrom(0, 0, n, size, overlap)

\* pageContent of a piece
PageContent(text, piece) == SubSeq(text, piece.start + 1, piece.start + piece.len)

\* the chunks chunkDocument makes of the splitter's pieces
ChunksFromPieces(text, pieces, opts) ==
    [k \in 1..Len(pieces) |->
        [content |-> PageContent(text, pieces[k]),
         chunkIndex |-> k - 1,
         startChar |-> (k - 1) * (opts.chunkSize - opts.chunkOverlap),
         endChar |-> (k - 1) * (opts.chunkSize - opts.chunkOverlap) + pieces[k].len]]

SplitIdle == [pc |-> "idle", text |-> <<>>, opts |-> [chunkSize |-> 0, chunkOverlap |-> 0],
              chunks |-> <<>>]

\* chunkDocument(text, filename, options) called and returned
ChunkDocumentCall ==
    /\ split.pc = "given"
    /\ \E pieces \in Splittings(Len(split.text), split.opts.chunkSize,
                                 split.opts.chunkOverlap) :
          split' = [split EXCEPT !.pc = "chunked",
                                 !.chunks = ChunksFromPieces(split.text, pieces, split.opts)]
    /\ UNCHANGED ingestVars
    /\ UNCHANGED <<index, sim, qry, gate, chat, messages, norm, comp, del>>

\* ------------------------------------------------------------------------
\* Embedding client: generateEmbeddingsBatch / generateEmbeddings
\* ------------------------------------------------------------------------
RespKinds == {"ok", "badcount", "4xx", "5xx", "timeout"}

\* the provider's vector for one text
Embed(t) == <<"e", t>>
EmbedAll(batch) == [k \in 1..Len(batch) |-> Embed(batch[k])]
\* a response whose embeddings array is one short
ShortResponse(batch) == [k \in 1..(Len(batch) - 1) |-> Embed(batch[k])]

\* data.embeddings && data.embeddings.length === texts.length
AcceptsResponse(vecs, batch) == Len(vecs) = Len(batch)

\* what a 200 response of the given kind carries
ResponseVectors(kind, batch) == IF kind = "ok" THEN EmbedAll(batch) ELSE ShortResponse(batch)

\* one activation of generateEmbeddingsBatch.  lastKind is the kind of the
\* latest provider response ("" before any), delay the backoff being waited
\* for at pc "backoff", nreq the number of requests sent so far, nprog the
\* number of onProgress calls, iter the number of sub-batches finished (both
\* counted up to the number of texts plus IterCap)
EmbIdle ==
    [pc |-> "idle", texts |-> <<>>, batchSize |-> 0, i |-> 0, acc |-> <<>>,
     batch |-> <<>>, attempt |-> 0, iter |-> 0, lastKind |-> "", delay |-> 0,
     nreq |-> 0, nprog |-> 0]

\* (mutant of EmbStart: the texts go to the provider without a look at their
\* number)
EmbStartUnchecked(texts, batchSize) ==
    [EmbIdle EXCEPT !.pc = "fetch", !.texts = texts, !.batchSize = batchSize,
                    !.batch = texts, !.attempt = 1, !.nreq = 1]

\* generateEmbeddingsBatch(texts, batchSize, onProgress) up to its first await
EmbStart(texts, batchSize) ==
    IF Len(texts) = 0
    THEN [EmbIdle EXCEPT !.pc = "returned", !.batchSize = batchSize]
    ELSE [EmbIdle EXCEPT !.pc = "head", !.texts = texts, !.batchSize = batchSize]

\* Math.min(1000 * Math.pow(2, attempt - 1), 5000)
BackoffDelay(attempt) == Min(BackoffBaseMs * Pow2(attempt - 1), BackoffMaxMs)

\* (mutant of RetriesAfter: one attempt more than `retries`)
RetriesOnceMore(kind, attempt, retries) == attempt <= retries

\* the catch block of generateEmbeddings: is another attempt made after a
\* failure of the given kind on the given attempt?
RetriesAfter(kind, attempt, retries) ==
    IF kind = "timeout" /\ attempt < retries
    THEN TRUE
    ELSE IF attempt = retries THEN FALSE ELSE TRUE

\* (mutant of Accumulate: results of a later sub-batch put in front)
AccumulateInFront(acc, vecs) == vecs \o acc

\* embeddings.push(...batchEmbeddings)
Accumulate(acc, vecs) == acc \o vecs

\* the progress note the ingestion's onProgress callback writes (not awaited)
EmbedNote(cur, total) == Meta("progress", "embedding", cur, total, "", 0)

\* after a sub-batch result: push, onProgress, then the rate-limit pause or
\* the next loop test
EmbAfterBatch(c, m, vecs) ==
    LET cur == BatchNumber(m.i, m.batchSize)
        tot == TotalBatches(Len(m.texts), m.batchSize)
        cap == Len(m.texts) + IterCap
        m1 == [m EXCEPT !.acc = Accumulate(m.acc, vecs),
                        !.iter = Min(m.iter + 1, cap),
                        !.nprog = Min(m.nprog + 1, cap)]
    IN /\ emb' = [emb EXCEPT ![c] =
                    IF m.i + m.batchSize < Len(m.texts)
                    THEN [m1 EXCEPT !.pc = "pause"]
                    ELSE [m1 EXCEPT !.pc = "head", !.i = m.i + m.batchSize]]
       /\ pending' = IF c \in DocIds
                     THEN [pending EXCEPT ![c] = @ \cup {EmbedNote(cur, tot)}]
                     ELSE pending

\* a caller other than the ingestion calls generateEmbeddingsBatch with the
\* texts and the batch size it holds
EmbedCall(c) ==
    /\ emb[c].pc = "call"
    /\ emb' = [emb EXCEPT ![c] = EmbStart(emb[c].texts, emb[c].batchSize)]
    /\ UNCHANGED <<documents, chunkRecs, index, nextVid, ing, ups, pending, indexStatus>>
    /\ UNCHANGED askVars
    /\ UNCHANGED textVars

\* the for-loop test and the start of generateEmbeddings(batch)
EmbedHead(c) ==
    LET m == emb[c]
        batch == JsSlice(m.texts, m.i, m.i + m.batchSize)
    IN /\ m.pc = "head"
       /\ IF m.i < Len(m.texts)
          THEN IF Len(batch) = 0
               THEN \* texts.length === 0: returns [] without a request
                    EmbAfterBatch(c, [m EXCEPT !.batch = batch], <<>>)
               ELSE /\ emb' = [emb EXCEPT ![c] =
                                 [m EXCEPT !.pc = "fetch", !.batch = batch,
                                           !.attempt = 1, !.nreq = m.nreq + 1]]
                    /\ UNCHANGED pending
          ELSE /\ emb' = [emb EXCEPT ![c] = [m EXCEPT !.pc = "returned"]]
               /\ UNCHANGED pending
       /\ UNCHANGED <<documents, chunkRecs, index, nextVid, ing, ups, indexStatus>>
       /\ UNCHANGED askVars
       /\ UNCHANGED textVars

\* the provider answers (or the 30 s abort fires) for the request in flight
EmbedResponse(c, kind) ==
    LET m == [emb[c] EXCEPT !.lastKind = kind]
    IN /\ m.pc = "fetch"
       /\ IF kind \in {"ok", "badcount"}
             /\ AcceptsResponse(ResponseVectors(kind, m.batch), m.batch)
          THEN EmbAfterBatch(c, m, ResponseVectors(kind, m.batch))
          ELSE IF RetriesAfter(kind, m.attempt, EmbedRetries)
               THEN /\ emb' = [emb EXCEPT ![c] =
                                 [m EXCEPT !.pc = "backoff",
                                           !.delay = BackoffDelay(m.attempt)]]
                    /\ UNCHANGED pending
               ELSE /\ emb' = [emb EXCEPT ![c] = [m EXCEPT !.pc = "threw"]]
                    /\ UNCHANGED pending
       /\ UNCHANGED <<documents, chunkRecs, index, nextVid, ing, ups, indexStatus>>
       /\ UNCHANGED askVars
       /\ UNCHANGED textVars

\* the backoff delay elapsed: next attempt of the same sub-batch
EmbedBackoffDone(c) ==
    LET m == emb[c]
    IN /\ m.pc = "backoff"
       /\ emb' = [emb EXCEPT ![c] =
                    [m EXCEPT !.pc = "fetch", !.attempt = m.attempt + 1,
                              !.delay = 0, !.nreq = m.nreq + 1]]
       /\ UNCHANGED <<documents, chunkRecs, index, nextVid, ing, ups, pending, indexStatus>>
       /\ UNCHANGED askVars
       /\ UNCHANGED textVars

\* i += batchSize.  The index is followed down to -IterCap: from any index
\* below zero a negative batch size gives the same pass again (the slice from
\* a negative start to a smaller end is empty), so lower values stand for
\* one another
NextIndex(i, batchSize) == Max(i + batchSize, 0 - IterCap)

\* the 500 ms rate-limit pause elapsed: i += batchSize
EmbedPauseDone(c) ==
    LET m == emb[c]
    IN /\ m.pc = "pause"
       /\ emb' = [emb EXCEPT ![c] =
                    [m EXCEPT !.pc = "head", !.i = NextIndex(m.i, m.batchSize)]]
       /\ UNCHANGED <<documents, chunkRecs, index, nextVid, ing, ups, pending, indexStatus>>
       /\ UNCHANGED askVars
       /\ UNCHANGED textVars

\* ------------------------------------------------------------------------
\* Upload handler and background ingestion (upload/route.ts)
\* ------------------------------------------------------------------------
Files == {NoFile} \cup {[blank |-> FALSE, n |-> k] : k \in ChunkCounts}
KeyStates == {"ok", "no_cohere", "no_pinecone"}

Exists(d) == documents[d].status # "absent"
Terminal(d) == documents[d].status \in {"completed", "failed"}

\* chunkDocument: the splitter's pieces, numbered by their position
ChunkDocument(file) ==
    [k \in 1..file.n |-> [content |-> <<"c", k>>, chunkIndex |-> k - 1]]

\* (mutant of WriteMetadata: the progress update also writes status "processing")
WriteMetadataAndStatus(d, meta, applied) ==
    IF applied /\ Exists(d)
    THEN [documents EXCEPT ![d].metadata = meta, ![d].status = "processing"]
    ELSE documents

\* .update({ metadata }).eq("id", d): rewrites the metadata column only.
\* An update that reports an error has not changed the row.
WriteMetadata(d, meta, applied) ==
    IF applied /\ Exists(d)
    THEN [documents EXCEPT ![d].metadata = meta]
    ELSE documents

\* .update({ status, total_chunks?, metadata }).eq("id", d)
WriteStatus(d, status, total, meta, applied) ==
    IF applied /\ Exists(d)
    THEN [documents EXCEPT ![d].status = status, ![d].total_chunks = total,
                           ![d].metadata = meta]
    ELSE documents

StepNote(step) == Meta("progress", step, 0, 0, "", 0)

\* (mutant of Throw: the error is swallowed without the "failed" update)
ThrowSwallowed(d, err) == [ing[d] EXCEPT !.pc = "done", !.err = err]

\* a throw inside the try block: the catch block issues the "failed" update
Throw(d, err) == [ing[d] EXCEPT !.pc = "catch", !.err = err]

\* (mutant of Settle: the request waits for the ingestion and reports its error)
SettleIntoResponse(m) ==
    [m EXCEPT !.pc = "done", !.promise = "fulfilled",
              !.response = IF m.err # "" THEN UploadResponse(500, "") ELSE m.response]

\* processDocumentAsync returns: its promise is fulfilled (the try block ended
\* or the catch block ended); nobody waits for it
Settle(m) == [m EXCEPT !.pc = "done", !.promise = "fulfilled"]

\* (mutant of NoChunks: an empty chunk list is let through)
NoChunksIgnored(chunks) == FALSE

\* if (chunks.length === 0)
NoChunks(chunks) == Len(chunks) = 0

\* (mutant of EmbedOutcome: whatever generateEmbeddingsBatch did is taken as success)
EmbedOutcomeIgnored(m, chunks) == ""

\* how the embedding step ends: "" when generateEmbeddingsBatch returned as
\* many vectors as there are chunks, else the error thrown
EmbedOutcome(m, chunks) ==
    IF m.pc = "threw" THEN "embedding failed"
    ELSE IF Len(m.acc) # Len(chunks) THEN "embedding count mismatch"
    ELSE ""

\* the upload request: whether it carries a session and a file, and the
\* file's size in bytes and declared media type
MaxUploadBytes == 10485760
AllowedTypes ==
    {"application/pdf",
     "application/vnd.openxmlformats-officedocument.wordprocessingml.document",
     "text/plain"}
FileTypes == AllowedTypes \cup {"image/png"}
FileSizes == {MaxUploadBytes, MaxUploadBytes + 1}
UploadRequests ==
    [authed : BOOLEAN, hasFile : BOOLEAN, size : FileSizes, type : FileTypes]

Oversize(req) == req.hasFile /\ req.size > MaxUploadBytes
OffType(req) == req.hasFile /\ req.type \notin AllowedTypes

\* (mutant of Validate: the size of the file is not looked at)
ValidateTypeOnly(req) ==
    IF ~req.authed THEN 401
    ELSE IF ~req.hasFile THEN 400
    ELSE IF req.type \notin AllowedTypes THEN 400
    ELSE 0

\* the checks of POST before the insert, in their order: the status of the
\* early return, 0 when the request passes them all
Validate(req) ==
    IF ~req.authed THEN 401
    ELSE IF ~req.hasFile THEN 400
    ELSE IF req.size > MaxUploadBytes THEN 400
    ELSE IF req.type \notin AllowedTypes THEN 400
    ELSE 0

\* POST answering before a row exists: 401 (no session), 400 (no file, too
\* large, type not allowed) or, for a request that passed the checks, 500
\* (the insert failed)
UploadRejected(d, req) ==
    /\ ~Exists(d)
    /\ ing[d].pc = "idle"
    /\ ing' = [ing EXCEPT ![d].response =
                  UploadResponse(IF Validate(req) # 0 THEN Validate(req) ELSE 500, ""),
                          ![d].oversize = Oversize(req),
                          ![d].offType = OffType(req)]
    /\ UNCHANGED <<documents, chunkRecs, index, nextVid, ups, pending, emb, indexStatus>>
    /\ UNCHANGED askVars
    /\ UNCHANGED textVars

\* (mutant of Upload: processDocumentAsync is started before the API keys
\* are checked)
UploadChecksKeysLate(d, u, req, file, keys, applied) ==
    /\ ~Exists(d)
    /\ ing[d].pc = "idle"
    /\ Validate(req) = 0
    /\ IF keys = "ok"
       THEN /\ documents' = [documents EXCEPT ![d] =
                               [user_id |-> u, status |-> "processing",
                                total_chunks |-> 0, metadata |-> NoMeta]]
            /\ ing' = [ing EXCEPT ![d] =
                         [IngIdle EXCEPT !.pc = "p_extract", !.user = u, !.file = file,
                                         !.promise = "pending",
                                         !.oversize = Oversize(req),
                                         !.offType = OffType(req),
                                         !.response = UploadResponse(201, "processing")]]
       ELSE \* the update's result is not looked at
            /\ documents' = [documents EXCEPT ![d] =
                               IF applied
                               THEN [user_id |-> u, status |-> "failed", total_chunks |-> 0,
                                     metadata |-> Meta("failed", "", 0, 0, keys, 0)]
                               ELSE [user_id |-> u, status |-> "processing",
                                     total_chunks |-> 0, metadata |-> NoMeta]]
            /\ ing' = [ing EXCEPT ![d] = [IngIdle EXCEPT !.pc = "p_extract", !.user = u,
                                                  !.file = file, !.promise = "pending",
                                                  !.oversize = Oversize(req),
                                                  !.offType = OffType(req),
                                                  !.response = UploadResponse(500, "")]]
    /\ UNCHANGED <<chunkRecs, index, nextVid, ups, pending, emb, indexStatus>>
    /\ UNCHANGED askVars
    /\ UNCHANGED textVars

\* POST: insert the row, check the API keys, start processDocumentAsync
\* (which runs up to its first await) and answer 201
Upload(d, u, req, file, keys, applied) ==
    /\ ~Exists(d)
    /\ ing[d].pc = "idle"
    /\ Validate(req) = 0
    /\ IF keys = "ok"
       THEN /\ documents' = [documents EXCEPT ![d] =
                               [user_id |-> u, status |-> "processing",
                                total_chunks |-> 0, metadata |-> NoMeta]]
            /\ ing' = [ing EXCEPT ![d] =
                         [IngIdle EXCEPT !.pc = "p_extract", !.user = u, !.file = file,
                                         !.promise = "pending",
                                         !.oversize = Oversize(req),
                                         !.offType = OffType(req),
                                         !.response = UploadResponse(201, "processing")]]
       ELSE \* the update's result is not looked at
            /\ documents' = [documents EXCEPT ![d] =
                               IF applied
                               THEN [user_id |-> u, status |-> "failed", total_chunks |-> 0,
                                     metadata |-> Meta("failed", "", 0, 0, keys, 0)]
                               ELSE [user_id |-> u, status |-> "processing",
                                     total_chunks |-> 0, metadata |-> NoMeta]]
            /\ ing' = [ing EXCEPT ![d] = [IngIdle EXCEPT !.pc = "not_started", !.user = u,
                                                  !.oversize = Oversize(req),
                                                  !.offType = OffType(req),
                                                  !.response = UploadResponse(500, "")]]
    /\ UNCHANGED <<chunkRecs, index, nextVid, ups, pending, emb, indexStatus>>
    /\ UNCHANGED askVars
    /\ UNCHANGED textVars

\* await updateProgress("Extracting text from document...") settled
ProgressExtract(d, applied) ==
    /\ ing[d].pc = "p_extract"
    /\ documents' = WriteMetadata(d, StepNote("extracting"), applied)
    /\ ing' = [ing EXCEPT ![d].pc = "extract"]
    /\ UNCHANGED <<chunkRecs, index, nextVid, ups, pending, emb, indexStatus>>
    /\ UNCHANGED askVars
    /\ UNCHANGED textVars

\* processDocument settled first in the race; cleanLegalText, empty check
ExtractDone(d, ok) ==
    /\ ing[d].pc = "extract"
    /\ ing' = [ing EXCEPT ![d] =
                 IF ~ok THEN Throw(d, "extraction failed")
                 ELSE IF ing[d].file.blank THEN Throw(d, "empty document")
                 ELSE [ing[d] EXCEPT !.pc = "p_chunk"]]
    /\ UNCHANGED <<documents, chunkRecs, index, nextVid, ups, pending, emb, indexStatus>>
    /\ UNCHANGED askVars
    /\ UNCHANGED textVars

\* the 60 s timer settled first in the race
ExtractTimeout(d) ==
    /\ ing[d].pc = "extract"
    /\ ing' = [ing EXCEPT ![d] = Throw(d, "extraction timeout")]
    /\ UNCHANGED <<documents, chunkRecs, index, nextVid, ups, pending, emb, indexStatus>>
    /\ UNCHANGED askVars
    /\ UNCHANGED textVars

\* await updateProgress("Chunking document...") settled
ProgressChunk(d, applied) ==
    /\ ing[d].pc = "p_chunk"
    /\ documents' = WriteMetadata(d, StepNote("chunking"), applied)
    /\ ing' = [ing EXCEPT ![d].pc = "chunk"]
    /\ UNCHANGED <<chunkRecs, index, nextVid, ups, pending, emb, indexStatus>>
    /\ UNCHANGED askVars
    /\ UNCHANGED textVars

\* await chunkDocument(...) settled; zero chunks throws
ChunkDone(d) ==
    LET chunks == ChunkDocument(ing[d].file)
    IN /\ ing[d].pc = "chunk"
       /\ ing' = [ing EXCEPT ![d] =
                    IF NoChunks(chunks) THEN Throw(d, "no chunks")
                    ELSE [ing[d] EXCEPT !.pc = "p_embed", !.chunks = chunks]]
       /\ UNCHANGED <<documents, chunkRecs, index, nextVid, ups, pending, emb, indexStatus>>
       /\ UNCHANGED askVars
       /\ UNCHANGED textVars

\* await updateProgress("Generating embeddings...", 0) settled; the call of
\* generateEmbeddingsBatch(texts, 96, onProgress) starts
ProgressEmbed(d, applied) ==
    /\ ing[d].pc = "p_embed"
    /\ documents' = WriteMetadata(d, StepNote("embedding"), applied)
    /\ ing' = [ing EXCEPT ![d].pc = "embedding"]
    /\ emb' = [emb EXCEPT ![d] =
                 EmbStart([k \in 1..Len(ing[d].chunks) |-> ing[d].chunks[k].content],
                          EmbedBatchSize)]
    /\ UNCHANGED <<chunkRecs, index, nextVid, ups, pending, indexStatus>>
    /\ UNCHANGED askVars
    /\ UNCHANGED textVars

\* generateEmbeddingsBatch settled; the count check
EmbedDone(d) ==
    /\ ing[d].pc = "embedding"
    /\ emb[d].pc \in {"returned", "threw"}
    /\ LET outcome == EmbedOutcome(emb[d], ing[d].chunks)
           reached == ing[d].reached \cup {"embedded"}
                         \cup (IF emb[d].nreq > 0 THEN {"embed"} ELSE {})
       IN ing' = [ing EXCEPT ![d] =
                    IF outcome # ""
                    THEN [Throw(d, outcome) EXCEPT !.reached = reached]
                    ELSE [ing[d] EXCEPT !.pc = "p_upsert", !.embeddings = emb[d].acc,
                                        !.reached = reached]]
    /\ emb' = [emb EXCEPT ![d] = EmbIdle]
    /\ UNCHANGED <<documents, chunkRecs, index, nextVid, ups, pending, indexStatus>>
    /\ UNCHANGED askVars
    /\ UNCHANGED textVars

\* ------------------------------------------------------------------------
\* upsertVectors (vector-store.ts), one activation per ingestion
\* ------------------------------------------------------------------------
\* the vectors prepared by upsertVectors from its arguments and fresh ids
Vectors(d, ids) ==
    [k \in 1..Len(ing[d].embeddings) |->
        [id |-> ids[k], values |-> ing[d].embeddings[k], documentId |-> d,
         userId |-> ing[d].user, chunkIndex |-> ing[d].chunks[k].chunkIndex,
         content |-> ing[d].chunks[k].content]]

Range(seq) == {seq[k] : k \in 1..Len(seq)}

\* index.upsert(batch): a vector with a known id is replaced
UpsertInto(idx, batch) ==
    {v \in idx : \A w \in Range(batch) : w.id # v.id} \cup Range(batch)

\* await updateProgress("Saving to vector database...") settled; upsertVectors
\* is called and awaits getOrCreateIndex
ProgressUpsert(d, applied) ==
    /\ ing[d].pc = "p_upsert"
    /\ documents' = WriteMetadata(d, StepNote("upserting"), applied)
    /\ ing' = [ing EXCEPT ![d].pc = "await_upsert", ![d].reached = @ \cup {"upsert"}]
    /\ ups' = [ups EXCEPT ![d] = [UpsIdle EXCEPT !.pc = "getindex"]]
    /\ UNCHANGED <<chunkRecs, index, nextVid, pending, emb, indexStatus>>
    /\ UNCHANGED askVars
    /\ UNCHANGED textVars

\* getOrCreateIndex returned the index: upsertVectors draws one fresh id per
\* embedding and sends the first batch
UpsStarted(d, n) ==
    [ups[d] EXCEPT !.pc = IF 0 < n THEN "upsert" ELSE "done", !.i = 0,
                   !.retries = UpsertRetries, !.ids = [k \in 1..n |-> nextVid + k]]

\* getOrCreateIndex: listIndexes settled.  An error is rethrown; an index of
\* the configured name that is listed (ready or not) is returned at once;
\* otherwise createIndex is called
UpsGetIndex(d, ok) ==
    LET n == Len(ing[d].embeddings)
    IN /\ ups[d].pc = "getindex"
       /\ IF ~ok
          THEN /\ ups' = [ups EXCEPT ![d].pc = "failed"]
               /\ UNCHANGED nextVid
          ELSE IF indexStatus # "absent"
          THEN /\ ups' = [ups EXCEPT ![d] = UpsStarted(d, n)]
               /\ nextVid' = nextVid + n
          ELSE /\ ups' = [ups EXCEPT ![d].pc = "create"]
               /\ UNCHANGED nextVid
       /\ UNCHANGED <<documents, chunkRecs, index, ing, pending, emb, indexStatus>>
       /\ UNCHANGED askVars
       /\ UNCHANGED textVars

\* getOrCreateIndex: createIndex settled.  The provider refuses a name that
\* is taken (conflict); an error is rethrown; otherwise the index exists and
\* initializes while the fixed wait of 10 s runs
UpsCreateIndex(d, ok) ==
    /\ ups[d].pc = "create"
    /\ IF indexStatus # "absent"
       THEN /\ ups' = [ups EXCEPT ![d].pc = "failed", ![d].conflict = TRUE]
            /\ UNCHANGED indexStatus
       ELSE IF ok
       THEN /\ ups' = [ups EXCEPT ![d].pc = "indexwait"]
            /\ indexStatus' = "initializing"
       ELSE /\ ups' = [ups EXCEPT ![d].pc = "failed"]
            /\ UNCHANGED indexStatus
    /\ UNCHANGED <<documents, chunkRecs, index, nextVid, ing, pending, emb>>
    /\ UNCHANGED askVars
    /\ UNCHANGED textVars

\* getOrCreateIndex: the 10 s after createIndex elapsed; the index is
\* returned without its status being asked for
UpsIndexWaitDone(d) ==
    LET n == Len(ing[d].embeddings)
    IN /\ ups[d].pc = "indexwait"
       /\ ups' = [ups EXCEPT ![d] = UpsStarted(d, n)]
       /\ nextVid' = nextVid + n
       /\ UNCHANGED <<documents, chunkRecs, index, ing, pending, emb, indexStatus>>
       /\ UNCHANGED askVars
       /\ UNCHANGED textVars

\* the provider finished initializing the index
IndexReady ==
    /\ indexStatus = "initializing"
    /\ indexStatus' = "ready"
    /\ UNCHANGED <<documents, chunkRecs, index, nextVid, ing, ups, pending, emb>>
    /\ UNCHANGED askVars
    /\ UNCHANGED textVars

\* (mutant of UpsRetryDelay: the wait counted from the attempts made)
UpsRetryDelayFromOne(retries) == 1000 * (3 - retries)

\* setTimeout(resolve, 1000 * (4 - retries)), retries already decremented
UpsRetryDelay(retries) == 1000 * (4 - retries)

\* the race of index.upsert(batch) against the 30 s timer settled.
\* outcome "ok": written; "error": rejected; "timeout": the timer won, and
\* the write may or may not have been carried out (landed)
UpsBatchResult(d, outcome, landed) ==
    LET u == ups[d]
        vecs == Vectors(d, u.ids)
        batch == JsSlice(vecs, u.i, u.i + UpsertBatchSize)
    IN /\ u.pc = "upsert"
       /\ outcome = "ok" => landed
       /\ outcome = "error" => ~landed
       /\ index' = IF landed THEN UpsertInto(index, batch) ELSE index
       /\ ups' = [ups EXCEPT ![d] =
                    IF outcome = "ok"
                    THEN IF u.i + UpsertBatchSize < Len(vecs)
                         THEN [u EXCEPT !.i = u.i + UpsertBatchSize,
                                        !.retries = UpsertRetries]
                         ELSE [u EXCEPT !.i = u.i + UpsertBatchSize, !.pc = "done"]
                    ELSE IF u.retries - 1 = 0
                         THEN [u EXCEPT !.retries = 0, !.pc = "failed"]
                         ELSE [u EXCEPT !.retries = u.retries - 1, !.pc = "wait",
                                        !.delay = UpsRetryDelay(u.retries - 1)]]
       /\ UNCHANGED <<documents, chunkRecs, nextVid, ing, pending, emb, indexStatus>>
       /\ UNCHANGED askVars
       /\ UNCHANGED textVars

\* the wait of 1000 * (4 - retries) ms before the next attempt elapsed
UpsWaitDone(d) ==
    /\ ups[d].pc = "wait"
    /\ ups' = [ups EXCEPT ![d].pc = "upsert", ![d].delay = 0]
    /\ UNCHANGED <<documents, chunkRecs, index, nextVid, ing, pending, emb, indexStatus>>
    /\ UNCHANGED askVars
    /\ UNCHANGED textVars

\* (mutant of UpsertDone: the ingestion goes on without awaiting upsertVectors)
UpsertNotAwaited(d) ==
    /\ ing[d].pc = "await_upsert"
    /\ ing' = [ing EXCEPT ![d] = [ing[d] EXCEPT !.pc = "p_chunks", !.vectorIds = ups[d].ids]]
    /\ UNCHANGED <<documents, chunkRecs, index, nextVid, ups, pending, emb, indexStatus>>
    /\ UNCHANGED askVars
    /\ UNCHANGED textVars

\* upsertVectors settled first in the race of processDocumentAsync
UpsertDone(d) ==
    /\ ing[d].pc = "await_upsert"
    /\ ups[d].pc \in {"done", "failed"}
    /\ ing' = [ing EXCEPT ![d] =
                 IF ups[d].pc = "failed" THEN Throw(d, "vector upsert failed")
                 ELSE [ing[d] EXCEPT !.pc = "p_chunks", !.vectorIds = ups[d].ids]]
    /\ UNCHANGED <<documents, chunkRecs, index, nextVid, ups, pending, emb, indexStatus>>
    /\ UNCHANGED askVars
    /\ UNCHANGED textVars

\* (mutant of UpsertTimeout: the timer's rejection is dropped and the
\* ingestion goes on to the chunk records)
UpsertTimeoutDropped(d) ==
    /\ ing[d].pc = "await_upsert"
    /\ ups[d].pc \notin {"done", "failed"}
    /\ ing' = [ing EXCEPT ![d] =
                 [ing[d] EXCEPT !.pc = "p_chunks",
                                !.vectorIds = [k \in 1..Len(ing[d].chunks) |-> 0]]]
    /\ UNCHANGED <<documents, chunkRecs, index, nextVid, ups, pending, emb, indexStatus>>
    /\ UNCHANGED askVars
    /\ UNCHANGED textVars

\* the 120 s timer settled first; upsertVectors keeps running
UpsertTimeout(d) ==
    /\ ing[d].pc = "await_upsert"
    /\ ups[d].pc \notin {"done", "failed"}
    /\ ing' = [ing EXCEPT ![d] = Throw(d, "vector upsert timeout")]
    /\ UNCHANGED <<documents, chunkRecs, index, nextVid, ups, pending, emb, indexStatus>>
    /\ UNCHANGED askVars
    /\ UNCHANGED textVars

\* ------------------------------------------------------------------------
\* Chunk persistence, completion, failure (upload/route.ts)
\* ------------------------------------------------------------------------
\* (mutant of ChunkRecords: vector ids taken one position off)
ChunkRecordsShifted(d) ==
    [k \in 1..Len(ing[d].chunks) |->
        [document_id |-> d, chunk_index |-> k - 1, content |-> ing[d].chunks[k].content,
         vector_id |-> ing[d].vectorIds[(k % Len(ing[d].chunks)) + 1]]]

\* chunks.map((chunk, index) => ({ ..., vector_id: vectorIds[index] }))
ChunkRecords(d) ==
    [k \in 1..Len(ing[d].chunks) |->
        [document_id |-> d, chunk_index |-> k - 1, content |-> ing[d].chunks[k].content,
         vector_id |-> ing[d].vectorIds[k]]]

\* await updateProgress("Saving document chunks...") settled; first insert sent
ProgressChunks(d, applied) ==
    /\ ing[d].pc = "p_chunks"
    /\ documents' = WriteMetadata(d, StepNote("saving chunks"), applied)
    /\ ing' = [ing EXCEPT ![d] =
                 IF 0 < Len(ing[d].chunks)
                 THEN [ing[d] EXCEPT !.i = 0, !.pc = "insert", !.reached = @ \cup {"insert"}]
                 ELSE [ing[d] EXCEPT !.i = 0, !.pc = "p_final"]]
    /\ UNCHANGED <<chunkRecs, index, nextVid, ups, pending, emb, indexStatus>>
    /\ UNCHANGED askVars
    /\ UNCHANGED textVars

\* (mutant of InsertResult: the error of insert(batch) is not looked at)
InsertErrorIgnored(d, ok) ==
    LET recs == ChunkRecords(d)
        batch == JsSlice(recs, ing[d].i, ing[d].i + ChunkInsertBatchSize)
    IN /\ ing[d].pc = "insert"
       /\ chunkRecs' = IF ok THEN chunkRecs \cup Range(batch) ELSE chunkRecs
       /\ ing' = [ing EXCEPT ![d] =
                    IF ing[d].i + ChunkInsertBatchSize < Len(recs)
                    THEN [ing[d] EXCEPT !.i = ing[d].i + ChunkInsertBatchSize]
                    ELSE [ing[d] EXCEPT !.i = ing[d].i + ChunkInsertBatchSize,
                                        !.pc = "p_final"]]
       /\ UNCHANGED <<documents, index, nextVid, ups, pending, emb, indexStatus>>
       /\ UNCHANGED askVars
       /\ UNCHANGED textVars

\* insert(batch) settled: an error throws, otherwise the next batch is sent
InsertResult(d, ok) ==
    LET recs == ChunkRecords(d)
        batch == JsSlice(recs, ing[d].i, ing[d].i + ChunkInsertBatchSize)
    IN /\ ing[d].pc = "insert"
       /\ chunkRecs' = IF ok THEN chunkRecs \cup Range(batch) ELSE chunkRecs
       /\ ing' = [ing EXCEPT ![d] =
                    IF ~ok THEN Throw(d, "chunk insert failed")
                    ELSE IF ing[d].i + ChunkInsertBatchSize < Len(recs)
                         THEN [ing[d] EXCEPT !.i = ing[d].i + ChunkInsertBatchSize]
                         ELSE [ing[d] EXCEPT !.i = ing[d].i + ChunkInsertBatchSize,
                                             !.pc = "p_final"]]
       /\ UNCHANGED <<documents, index, nextVid, ups, pending, emb, indexStatus>>
       /\ UNCHANGED askVars
       /\ UNCHANGED textVars

\* (mutant of ProgressFinal: a progress update that fails is thrown on)
ProgressFinalStrict(d, applied) ==
    /\ ing[d].pc = "p_final"
    /\ documents' = WriteMetadata(d, StepNote("finalizing"), applied)
    /\ ing' = [ing EXCEPT ![d] =
                 IF applied THEN [ing[d] EXCEPT !.pc = "complete", !.finalNote = "applied"]
                 ELSE [Throw(d, "progress update failed") EXCEPT !.finalNote = "rejected"]]
    /\ UNCHANGED <<chunkRecs, index, nextVid, ups, pending, emb, indexStatus>>
    /\ UNCHANGED askVars
    /\ UNCHANGED textVars

\* await updateProgress("Finalizing...") settled (its failure is caught and
\* logged inside updateProgress); the completed update is sent
ProgressFinal(d, applied) ==
    /\ ing[d].pc = "p_final"
    /\ documents' = WriteMetadata(d, StepNote("finalizing"), applied)
    /\ ing' = [ing EXCEPT ![d].pc = "complete",
                          ![d].finalNote = IF applied THEN "applied" ELSE "rejected"]
    /\ UNCHANGED <<chunkRecs, index, nextVid, ups, pending, emb, indexStatus>>
    /\ UNCHANGED askVars
    /\ UNCHANGED textVars

\* the completed update settled; an error throws
CompleteResult(d, ok) ==
    LET n == Len(ing[d].chunks)
    IN /\ ing[d].pc = "complete"
       /\ documents' = WriteStatus(d, "completed", n, Meta("completed", "", 0, 0, "", n), ok)
       /\ ing' = [ing EXCEPT ![d] =
                    IF ok THEN Settle(ing[d])
                    ELSE Throw(d, "status update failed")]
       /\ UNCHANGED <<chunkRecs, index, nextVid, ups, pending, emb, indexStatus>>
       /\ UNCHANGED askVars
       /\ UNCHANGED textVars

\* the failed update of the catch block settled; its result is not looked at
FailWriteResult(d, applied) ==
    /\ ing[d].pc = "catch"
    /\ documents' = WriteStatus(d, "failed", documents[d].total_chunks,
                                Meta("failed", "", 0, 0, ing[d].err, 0), applied)
    /\ ing' = [ing EXCEPT ![d] =
                 [Settle(ing[d]) EXCEPT
                     !.failWrite = IF applied THEN "applied" ELSE "rejected"]]
    /\ UNCHANGED <<chunkRecs, index, nextVid, ups, pending, emb, indexStatus>>
    /\ UNCHANGED askVars
    /\ UNCHANGED textVars

\* a progress update issued by the onProgress callback reaches the database
LandProgress(d, note, applied) ==
    /\ note \in pending[d]
    /\ pending' = [pending EXCEPT ![d] = @ \ {note}]
    /\ documents' = WriteMetadata(d, note, applied)
    /\ UNCHANGED <<chunkRecs, index, nextVid, ing, ups, emb, indexStatus>>
    /\ UNCHANGED askVars
    /\ UNCHANGED textVars

\* ------------------------------------------------------------------------
\* Delete endpoint
\* ------------------------------------------------------------------------
\* DELETE /api/documents/[id]: deletes the documents row of the caller; the
\* rows of document_chunks go with it when the schema cascades
DeleteDocument(d, u, cascade) ==
    /\ Exists(d)
    /\ documents[d].user_id = u
    /\ documents' = [documents EXCEPT ![d] = NoDoc]
    /\ chunkRecs' = IF cascade THEN {r \in chunkRecs : r.document_id # d} ELSE chunkRecs
    /\ UNCHANGED <<index, nextVid, ing, ups, pending, emb, indexStatus>>
    /\ UNCHANGED askVars
    /\ UNCHANGED textVars

\* ------------------------------------------------------------------------
\* Vector index queries (vector-store.ts)
\* ------------------------------------------------------------------------
\* the options argument of queryVectors; a field that is not given takes its
\* default in the destructuring
QueryOpts(topKGiven, topK, minGiven, minScore, idsGiven, ids) ==
    [topKGiven |-> topKGiven, topK |-> topK, minGiven |-> minGiven,
     minScore |-> minScore, idsGiven |-> idsGiven, ids |-> ids]

\* (mutant of BuildFilter: a document filter replaces the owner filter)
BuildFilterDocOnly(userId, opts) ==
    IF opts.idsGiven /\ opts.ids # {}
    THEN [byUser |-> FALSE, userId |-> userId, byDoc |-> TRUE, docIds |-> opts.ids]
    ELSE [byUser |-> TRUE, userId |-> userId, byDoc |-> FALSE, docIds |-> {}]

\* const filter = { userId: { $eq: userId } }, plus documentId: { $in } when
\* a non-empty list is given
BuildFilter(userId, opts) ==
    [byUser |-> TRUE, userId |-> userId,
     byDoc |-> opts.idsGiven /\ opts.ids # {},
     docIds |-> IF opts.idsGiven /\ opts.ids # {} THEN opts.ids ELSE {}]

\* the provider's metadata filter ($eq on userId, $in on documentId)
MatchesFilter(v, f) ==
    /\ f.byUser => v.userId = f.userId
    /\ f.byDoc => v.documentId \in f.docIds

\* ------------------------------------------------------------------------
\* deleteDocumentVectors (vector-store.ts)
\* ------------------------------------------------------------------------
\* (mutant of DeleteFilter: the owner condition is left out)
DeleteFilterDocOnly(documentId, userId) ==
    [byUser |-> FALSE, userId |-> userId, byDoc |-> TRUE, docIds |-> {documentId}]

\* { documentId: { $eq: documentId }, userId: { $eq: userId } }
DeleteFilter(documentId, userId) ==
    [byUser |-> TRUE, userId |-> userId, byDoc |-> TRUE, docIds |-> {documentId}]

NoDelete == [pc |-> "idle", documentId |-> "", userId |-> "", before |-> {}]

\* deleteDocumentVectors(documentId, userId): index.deleteMany(filter) removes
\* the vectors the filter matches; when getOrCreateIndex or deleteMany fails
\* the error is rethrown and nothing was removed
DeleteDocumentVectors(ok) ==
    /\ del.pc = "given"
    /\ indexStatus = "ready"
    /\ del' = [del EXCEPT !.pc = IF ok THEN "done" ELSE "failed", !.before = index]
    /\ index' = IF ok
                THEN {v \in index : ~MatchesFilter(v, DeleteFilter(del.documentId, del.userId))}
                ELSE index
    /\ UNCHANGED ingestVars
    /\ UNCHANGED <<sim, qry, gate, chat, messages, norm, comp, split>>

\* the provider's ranking: descending similarity, ties by id
Best(S, score) ==
    CHOOSE v \in S : \A w \in S :
        score[v.id] > score[w.id] \/ (score[v.id] = score[w.id] /\ v.id <= w.id)

RECURSIVE Ranked(_, _)
Ranked(S, score) ==
    IF S = {} THEN <<>>
    ELSE LET b == Best(S, score) IN <<b>> \o Ranked(S \ {b}, score)

\* index.query({ vector, topK, includeMetadata: true, filter })
ProviderQuery(idx, score, f, topK) ==
    LET r == Ranked({v \in idx : MatchesFilter(v, f)}, score)
    IN [k \in 1..Min(topK, Len(r)) |->
          [id |-> r[k].id, score |-> score[r[k].id],
           metadata |-> [documentId |-> r[k].documentId, userId |-> r[k].userId,
                         chunkIndex |-> r[k].chunkIndex, content |-> r[k].content]]]

\* .filter((match) => match.score && match.score >= minScore)
KeepsMatch(m, minScore) == m.score # 0 /\ m.score >= minScore

\* queryVectors(queryEmbedding, userId, options)
QueryVectors(idx, score, userId, opts) ==
    LET topK == IF opts.topKGiven THEN opts.topK ELSE DefaultTopK
        minScore == IF opts.minGiven THEN opts.minScore ELSE DefaultMinScore
        matches == ProviderQuery(idx, score, BuildFilter(userId, opts), topK)
    IN SelectSeq(matches, LAMBDA m : KeepsMatch(m, minScore))

NoQuery == [called |-> FALSE, user |-> "", opts |-> QueryOpts(FALSE, 0, FALSE, 0, FALSE, {}),
            result |-> <<>>]

\* one call of queryVectors on the index as it stands
RunQuery(u, opts) ==
    /\ qry' = [called |-> TRUE, user |-> u, opts |-> opts,
               result |-> QueryVectors(index, sim, u, opts)]
    /\ UNCHANGED <<index, sim, gate, chat, messages>>
    /\ UNCHANGED ingestVars
    /\ UNCHANGED textVars

\* ------------------------------------------------------------------------
\* Groundedness gate (groq.ts)
\* ------------------------------------------------------------------------
Source(documentId, content, score, chunkIndex) ==
    [documentId |-> documentId, content |-> content, score |-> score,
     chunkIndex |-> chunkIndex]

RECURSIVE SumScores(_)
SumScores(sources) ==
    IF Len(sources) = 0 THEN 0 ELSE Head(sources).score + SumScores(Tail(sources))

NoAnalysis == [canAnswer |-> FALSE, confNum |-> 0, confDen |-> 1, reasoning |-> ""]

\* (mutant of AnalyzeQuery: the source-count test is dropped)
AnalyzeQueryScoreOnly(sources) ==
    LET n == Len(sources)
        sum == SumScores(sources)
    IN IF n = 0
       THEN [canAnswer |-> FALSE, confNum |-> 0, confDen |-> 1, reasoning |-> "none found"]
       ELSE [canAnswer |-> sum >= GateMinAvgScore * n,
             confNum |-> IF sum >= ConfidenceCap * 10 * n THEN ConfidenceCap ELSE sum,
             confDen |-> IF sum >= ConfidenceCap * 10 * n THEN 1 ELSE 10 * n,
             reasoning |-> IF sum >= GateMinAvgScore * n THEN "found" ELSE "insufficient"]

\* analyzeQuery(query, sources).  Scores are thousandths, so avgScore >= 0.7
\* is sum / n >= 700 and avgScore * 100 is sum / (10 n); the confidence is
\* kept as the fraction confNum / confDen, exactly
AnalyzeQuery(sources) ==
    LET n == Len(sources)
        sum == SumScores(sources)
        canAnswer == sum >= GateMinAvgScore * n /\ n >= GateMinSources
    IN IF n = 0
       THEN [canAnswer |-> FALSE, confNum |-> 0, confDen |-> 1, reasoning |-> "none found"]
       ELSE [canAnswer |-> canAnswer,
             confNum |-> IF sum >= ConfidenceCap * 10 * n THEN ConfidenceCap ELSE sum,
             confDen |-> IF sum >= ConfidenceCap * 10 * n THEN 1 ELSE 10 * n,
             reasoning |-> IF canAnswer THEN "found" ELSE "insufficient"]

NoGate == [sources |-> <<>>, done |-> FALSE, result |-> NoAnalysis]

\* one call of analyzeQuery on the list at hand
Analyze ==
    /\ ~gate.done
    /\ gate' = [gate EXCEPT !.done = TRUE, !.result = AnalyzeQuery(gate.sources)]
    /\ UNCHANGED <<index, sim, qry, chat, messages>>
    /\ UNCHANGED ingestVars
    /\ UNCHANGED textVars

\* ------------------------------------------------------------------------
\* Chat endpoint (POST of the chat route)
\* ------------------------------------------------------------------------
\* The messages table is the storage collaborator: an insert the handler
\* awaits is taken to store its row.  The content of a message is a sequence
\* of pieces of text.
NoResponse == [status |-> 0, kind |-> "none", body |-> "", sources |-> <<>>]

JsonResponse(status, body, sources) ==
    [status |-> status, kind |-> "json", body |-> body, sources |-> sources]

ChatIdle ==
    [pc |-> "idle", user |-> "", message |-> "", stream |-> FALSE, convId |-> "",
     sources |-> <<>>, gated |-> FALSE, analysis |-> NoAnalysis, history |-> <<>>,
     llmCalls |-> 0, response |-> NoResponse, events |-> <<>>, streamState |-> "none",
     prompt |-> <<>>, deltas |-> <<>>]

Message(convId, role, content, sources) ==
    [conversation_id |-> convId, role |-> role, content |-> content, sources |-> sources]

\* sources: Source[] = retrievedVectors.map(...)
ToSources(retrieved) ==
    [k \in 1..Len(retrieved) |->
        Source(retrieved[k].metadata.documentId, retrieved[k].metadata.content,
               retrieved[k].score, retrieved[k].metadata.chunkIndex)]

\* the refusal template, with analysis.reasoning spliced in
RefusalText(analysis) == <<"refusal", analysis.reasoning>>

\* sources.map((s) => ({ documentId, filename, score, chunkIndex }))
StoredSources(sources) ==
    [k \in 1..Len(sources) |->
        [documentId |-> sources[k].documentId, score |-> sources[k].score,
         chunkIndex |-> sources[k].chunkIndex]]

\* sources.map((s) => ({ filename, score, preview }))
ReturnedSources(sources) ==
    [k \in 1..Len(sources) |->
        [documentId |-> sources[k].documentId, score |-> sources[k].score,
         preview |-> sources[k].content]]

\* (mutant of Refuses: the handler refuses only on a zero confidence)
RefusesOnZeroConfidence(analysis) == analysis.confNum = 0

\* if (!analysis.canAnswer)
Refuses(analysis) == ~analysis.canAnswer

\* .eq("conversation_id", convId).order("created_at", { ascending: true }).limit(6)
SelectHistory(log, convId) ==
    LET own == SelectSeq(log, LAMBDA m : m.conversation_id = convId)
    IN [k \in 1..Min(HistoryLimit, Len(own)) |->
          [role |-> own[k].role, content |-> own[k].content]]

\* ...conversationHistory.slice(-6): the history part of the model's messages
PromptHistory(history) == JsSlice(history, 0 - HistoryLimit, Len(history))

\* the outer catch: 500 "Failed to process chat message"
ChatCatch(c) ==
    [c EXCEPT !.pc = "done",
              !.response = JsonResponse(500, "Failed to process chat message", <<>>)]

\* session check, body parse, message check, conversation choice
ChatPost(authed, u, msg, convGiven, stream) ==
    /\ chat.pc = "idle"
    /\ chat' =
         IF ~authed
         THEN [chat EXCEPT !.pc = "done",
                           !.response = JsonResponse(401, "Unauthorized", <<>>)]
         ELSE IF msg = ""
         THEN [chat EXCEPT !.pc = "done", !.user = u,
                           !.response = JsonResponse(400, "Message is required", <<>>)]
         ELSE [chat EXCEPT !.pc = IF convGiven THEN "storeUser" ELSE "createConv",
                           !.user = u, !.message = msg, !.stream = stream,
                           !.convId = IF convGiven THEN "c0" ELSE ""]
    /\ UNCHANGED <<index, sim, qry, gate, messages>>
    /\ UNCHANGED ingestVars
    /\ UNCHANGED textVars

\* insert into conversations; error or no row answers 500
ConvInsertResult(ok) ==
    /\ chat.pc = "createConv"
    /\ chat' =
         IF ok THEN [chat EXCEPT !.pc = "storeUser", !.convId = "c1"]
         ELSE [chat EXCEPT !.pc = "done",
                           !.response = JsonResponse(500, "Failed to create conversation", <<>>)]
    /\ UNCHANGED <<index, sim, qry, gate, messages>>
    /\ UNCHANGED ingestVars
    /\ UNCHANGED textVars

\* insert of the user message
StoreUserMessage ==
    /\ chat.pc = "storeUser"
    /\ messages' = Append(messages, Message(chat.convId, "user", <<chat.message>>, <<>>))
    /\ chat' = [chat EXCEPT !.pc = "embedQuery"]
    /\ UNCHANGED <<index, sim, qry, gate>>
    /\ UNCHANGED ingestVars
    /\ UNCHANGED textVars

\* generateQueryEmbedding(message): the vector, or a throw to the outer catch
QueryEmbedResult(ok) ==
    /\ chat.pc = "embedQuery"
    /\ chat' = IF ok THEN [chat EXCEPT !.pc = "retrieve"] ELSE ChatCatch(chat)
    /\ UNCHANGED <<index, sim, qry, gate, messages>>
    /\ UNCHANGED ingestVars
    /\ UNCHANGED textVars

\* queryVectors(queryEmbedding, userId, { topK: 5, minScore: 0.7 }) and the
\* mapping to sources; a provider failure is rethrown to the outer catch
Retrieve(ok) ==
    /\ chat.pc = "retrieve"
    /\ chat' =
         IF ok
         THEN [chat EXCEPT !.pc = "analyze",
                 !.sources = ToSources(QueryVectors(index, sim, chat.user,
                     QueryOpts(TRUE, ChatTopK, TRUE, ChatMinScore, FALSE, {})))]
         ELSE ChatCatch(chat)
    /\ UNCHANGED <<index, sim, qry, gate, messages>>
    /\ UNCHANGED ingestVars
    /\ UNCHANGED textVars

\* analyzeQuery(message, sources) and the branch on its result
Gate ==
    /\ chat.pc = "analyze"
    /\ LET analysis == AnalyzeQuery(chat.sources)
       IN chat' = [chat EXCEPT !.gated = TRUE, !.analysis = analysis,
                     !.pc = IF Refuses(analysis) THEN "storeRefusal" ELSE "history"]
    /\ UNCHANGED <<index, sim, qry, gate, messages>>
    /\ UNCHANGED ingestVars
    /\ UNCHANGED textVars

\* the refusal branch: store the refusal with sources [] and return it
StoreRefusal ==
    /\ chat.pc = "storeRefusal"
    /\ messages' = Append(messages,
          Message(chat.convId, "assistant", RefusalText(chat.analysis), <<>>))
    /\ chat' = [chat EXCEPT !.pc = "done",
                  !.response = JsonResponse(200, RefusalText(chat.analysis), <<>>)]
    /\ UNCHANGED <<index, sim, qry, gate>>
    /\ UNCHANGED ingestVars
    /\ UNCHANGED textVars

\* select of the history (history?.map(...) || [] on an error), then the
\* branch on stream; the streaming response is returned at once
LoadHistory(ok) ==
    /\ chat.pc = "history"
    /\ chat' =
         [chat EXCEPT !.history = IF ok THEN SelectHistory(messages, chat.convId) ELSE <<>>,
                      !.pc = IF chat.stream THEN "streamStart" ELSE "generate",
                      !.response = IF chat.stream
                                   THEN [status |-> 200, kind |-> "stream", body |-> "",
                                         sources |-> <<>>]
                                   ELSE chat.response]
    /\ UNCHANGED <<index, sim, qry, gate, messages>>
    /\ UNCHANGED ingestVars
    /\ UNCHANGED textVars

\* generateResponse(message, sources, history), the insert of the answer and
\* the JSON response; a failure of the model goes to the outer catch
Generate(ok) ==
    /\ chat.pc = "generate"
    /\ IF ok
       THEN /\ messages' = Append(messages,
                  Message(chat.convId, "assistant", <<"answer">>, StoredSources(chat.sources)))
            /\ chat' = [chat EXCEPT !.pc = "done", !.llmCalls = chat.llmCalls + 1,
                          !.prompt = PromptHistory(chat.history),
                          !.response = JsonResponse(200, <<"answer">>,
                                                    ReturnedSources(chat.sources))]
       ELSE /\ messages' = messages
            /\ chat' = [ChatCatch(chat) EXCEPT !.llmCalls = chat.llmCalls + 1,
                                                !.prompt = PromptHistory(chat.history)]
    /\ UNCHANGED <<index, sim, qry, gate>>
    /\ UNCHANGED ingestVars
    /\ UNCHANGED textVars

\* start(controller): generateStreamingResponse(message, sources, history)
StreamStart ==
    /\ chat.pc = "streamStart"
    /\ chat' = [chat EXCEPT !.pc = "streaming", !.llmCalls = chat.llmCalls + 1,
                            !.prompt = PromptHistory(chat.history),
                            !.streamState = "open"]
    /\ UNCHANGED <<index, sim, qry, gate, messages>>
    /\ UNCHANGED ingestVars
    /\ UNCHANGED textVars

\* what a delta of the model may carry: nothing, or a piece of text
Deltas == {"", "x", "y"}

\* an event enqueued on the response stream (data: {...})
ChunkEvent(c) == [type |-> "chunk", chunk |-> c, conversationId |-> ""]
DoneEvent(convId) == [type |-> "done", chunk |-> "", conversationId |-> convId]

\* generateStreamingResponse: if (content) yield content
Yielded(deltas) == SelectSeq(deltas, LAMBDA c : c # "")

\* (mutant of FullResponse: only the latest fragment is kept)
FullResponseLatestOnly(fragments) ==
    IF Len(fragments) = 0 THEN <<>> ELSE <<fragments[Len(fragments)]>>

\* fullResponse += chunk, over the fragments yielded: the text as the
\* sequence of its pieces
FullResponse(fragments) == fragments

\* one delta of the model arrives; a non-empty one is yielded, added to
\* fullResponse and enqueued as a {chunk} event
StreamFragment(c) ==
    /\ chat.pc = "streaming"
    /\ Len(chat.deltas) < MaxFragments
    /\ chat' = [chat EXCEPT !.deltas = Append(chat.deltas, c),
                            !.events = IF c # "" THEN Append(chat.events, ChunkEvent(c))
                                       ELSE chat.events]
    /\ UNCHANGED <<index, sim, qry, gate, messages>>
    /\ UNCHANGED ingestVars
    /\ UNCHANGED textVars

\* the model's sequence ends: the insert of fullResponse is sent and awaited
StreamEnd ==
    /\ chat.pc = "streaming"
    /\ messages' = Append(messages,
          Message(chat.convId, "assistant", FullResponse(Yielded(chat.deltas)),
                  StoredSources(chat.sources)))
    /\ chat' = [chat EXCEPT !.pc = "streamStored"]
    /\ UNCHANGED <<index, sim, qry, gate>>
    /\ UNCHANGED ingestVars
    /\ UNCHANGED textVars

\* after the insert: enqueue {done, conversationId}, controller.close()
StreamDone ==
    /\ chat.pc = "streamStored"
    /\ chat' = [chat EXCEPT !.pc = "done", !.streamState = "closed",
                            !.events = Append(chat.events, DoneEvent(chat.convId))]
    /\ UNCHANGED <<index, sim, qry, gate, messages>>
    /\ UNCHANGED ingestVars
    /\ UNCHANGED textVars

\* the model fails in mid-stream: catch, controller.error(error)
StreamFail ==
    /\ chat.pc = "streaming"
    /\ chat' = [chat EXCEPT !.pc = "done", !.streamState = "errored"]
    /\ UNCHANGED <<index, sim, qry, gate, messages>>
    /\ UNCHANGED ingestVars
    /\ UNCHANGED textVars

\* ------------------------------------------------------------------------
\* Answer composer (groq.ts): generateResponse and generateStreamingResponse
\* put one question to the language model.  A text is the sequence of its
\* characters; numbers of the request are in thousandths where they are
\* fractions.
\* ------------------------------------------------------------------------
Temperature == 100
MaxTokens == 2000
TopP == 900

\* a ChatMessage
ChatMessage(role, content) == [role |-> role, content |-> content]

\* buildContext: a fixed sentence for no sources, else a heading and one block
\* per source with its 1-based position, file name, score and content
RECURSIVE SourceBlocks(_, _)
SourceBlocks(sources, k) ==
    IF k > Len(sources) THEN <<>>
    ELSE <<"Document", ToString(k), sources[k].filename,
           "Relevance Score", ToString(sources[k].score),
           "Content", sources[k].content, "---">>
         \o SourceBlocks(sources, k + 1)

BuildContext(sources) ==
    IF Len(sources) = 0 THEN <<"No relevant documents found.">>
    ELSE <<"RELEVANT LEGAL DOCUMENTS:">> \o SourceBlocks(sources, 1)

\* buildUserPrompt: the context, the question, the fixed instructions
BuildUserPrompt(query, context) ==
    context \o <<"QUESTION:", query, "INSTRUCTIONS", "ANSWER:">>

\* the messages both generators build: the system directive, the last six
\* messages of the history, the evidence block with the question
BuildMessages(query, sources, history) ==
    <<ChatMessage("system", <<"SYSTEM_PROMPT">>)>>
    \o PromptHistory(history)
    \o <<ChatMessage("user", BuildUserPrompt(query, BuildContext(sources)))>>

\* the request of generateResponse: groq.chat.completions.create({...})
ResponseRequest(query, sources, history) ==
    [messages |-> BuildMessages(query, sources, history),
     options |-> {<<"temperature", Temperature>>, <<"max_tokens", MaxTokens>>,
                  <<"top_p", TopP>>},
     stream |-> FALSE]

\* the request of generateStreamingResponse
StreamingRequest(query, sources, history) ==
    [messages |-> BuildMessages(query, sources, history),
     options |-> {<<"temperature", Temperature>>, <<"max_tokens", MaxTokens>>},
     stream |-> TRUE]

\* two requests ask the model the same thing when they carry the same
\* messages and the same sampling options (the stream flag only selects how
\* the answer is delivered)
SameQuestion(a, b) == a.messages = b.messages /\ a.options = b.options

\* the text a sequence of deltas spells (a delta is empty or one character)
Spelled(deltas) == Yielded(deltas)

NoCall == [called |-> FALSE, ok |-> FALSE, request |-> <<>>, out |-> <<>>]
CompIdle ==
    [pc |-> "idle", query |-> "", sources |-> <<>>, history |-> <<>>,
     plain |-> NoCall, streamed |-> NoCall]

\* what the language model may answer
AnswerChars == {"x", "y"}
Answers == UNION {[1..n -> AnswerChars] : n \in 0..MaxFragments}
DeltaRuns == UNION {[1..n -> Deltas] : n \in 0..MaxFragments}

\* generateResponse(query, sources, history): the model answers with `text`
\* (choices[0].message.content || ""), or fails and the function throws.  The
\* model is deterministic: asked the same thing as in the other call, it says
\* the same.
GenerateResponse(ok, text) ==
    /\ comp.pc = "given"
    /\ ~comp.plain.called
    /\ LET req == ResponseRequest(comp.query, comp.sources, comp.history)
       IN /\ (ok /\ comp.streamed.called /\ comp.streamed.ok
                 /\ SameQuestion(req, comp.streamed.request))
                => text = Spelled(comp.streamed.out)
          /\ ~ok => text = <<>>
          /\ comp' = [comp EXCEPT !.plain =
                         [called |-> TRUE, ok |-> ok, request |-> req, out |-> text]]
    /\ UNCHANGED <<index, sim, qry, gate, chat, messages, norm, split, del>>
    /\ UNCHANGED ingestVars

\* generateStreamingResponse(query, sources, history), run to its end: the
\* model sends `deltas`, the non-empty ones are yielded
GenerateStreamingResponse(ok, deltas) ==
    /\ comp.pc = "given"
    /\ ~comp.streamed.called
    /\ LET req == StreamingRequest(comp.query, comp.sources, comp.history)
       IN /\ (ok /\ comp.plain.called /\ comp.plain.ok
                 /\ SameQuestion(req, comp.plain.request))
                => Spelled(deltas) = comp.plain.out
          /\ ~ok => deltas = <<>>
          /\ comp' = [comp EXCEPT !.streamed =
                         [called |-> TRUE, ok |-> ok, request |-> req,
                          out |-> Yielded(deltas)]]
    /\ UNCHANGED <<index, sim, qry, gate, chat, messages, norm, split, del>>
    /\ UNCHANGED ingestVars

\* ------------------------------------------------------------------------
\* Specifications of the query side: the index holds vectors of two owners,
\* the same document ids under both, when a query, the gate or a chat turn runs
\* ------------------------------------------------------------------------
QueryDocIds == {"dA", "dB"}

UserOf(k) == IF k % 2 = 1 THEN "u1" ELSE "u2"

DocOf(k) == IF (k - 1) % 4 < 2 THEN "dA" ELSE "dB"

StoredVector(k) ==
    [id |-> k, values |-> Embed(<<"c", k>>), documentId |-> DocOf(k),
     userId |-> UserOf(k), chunkIndex |-> 0, content |-> <<"c", k>>]

VecUniverse == {StoredVector(k) : k \in 1..MaxVectors}

\* similarities the provider may compute for the query at hand
QueryScores == {0, 650, 900}

StoredIndex ==
    /\ index \in SUBSET VecUniverse
    /\ sim \in [1..MaxVectors -> QueryScores]
    /\ \A k \in 1..MaxVectors : StoredVector(k) \notin index => sim[k] = 0

IngestIdle ==
    /\ documents = [d \in DocIds |-> NoDoc]
    /\ indexStatus = "ready"
    /\ chunkRecs = {}
    /\ nextVid = 0
    /\ ing = [d \in DocIds |-> IngIdle]
    /\ ups = [d \in DocIds |-> UpsIdle]
    /\ pending = [d \in DocIds |-> {}]
    /\ emb = [c \in Callers |-> EmbIdle]

\* topK absent or 1, minScore absent or 0, documentIds absent, empty or not
OptionSets ==
    {QueryOpts(tg, IF tg THEN 1 ELSE 0, mg, 0, TRUE, ids) :
        tg \in BOOLEAN, mg \in BOOLEAN, ids \in SUBSET QueryDocIds}
    \cup {QueryOpts(tg, IF tg THEN 1 ELSE 0, mg, 0, FALSE, {}) :
        tg \in BOOLEAN, mg \in BOOLEAN}

InitQuery ==
    /\ IngestIdle
    /\ StoredIndex
    /\ qry = NoQuery
    /\ gate = NoGate
    /\ chat = ChatIdle
    /\ messages = <<>>
    /\ norm = NormIdle
    /\ comp = CompIdle
    /\ split = SplitIdle
    /\ del = NoDelete

NextQuery == \E u \in UserIds, opts \in OptionSets : RunQuery(u, opts)

SpecQuery == InitQuery /\ [][NextQuery]_vars

GateScores == {0, 650, 700, 750, 800, 900, 1000}

SourceLists ==
    UNION {[1..n -> {Source("dA", <<"c", 1>>, s, 0) : s \in GateScores}] : n \in 0..MaxSources}

InitGate ==
    /\ IngestIdle
    /\ index = {}
    /\ sim = [k \in 1..MaxVectors |-> 0]
    /\ qry = NoQuery
    /\ \E srcs \in SourceLists : gate = [NoGate EXCEPT !.sources = srcs]
    /\ chat = ChatIdle
    /\ messages = <<>>
    /\ norm = NormIdle
    /\ comp = CompIdle
    /\ split = SplitIdle
    /\ del = NoDelete

NextGate == Analyze

SpecGate == InitGate /\ [][NextGate]_vars

\* what the conversation "c0" holds before the turn
PriorLog(n) ==
    [k \in 1..n |-> Message("c0", IF k % 2 = 1 THEN "user" ELSE "assistant", <<"m", ToString(k)>>, <<>>)]

InitChat ==
    /\ IngestIdle
    /\ StoredIndex
    /\ qry = NoQuery
    /\ gate = NoGate
    /\ chat = ChatIdle
    /\ \E n \in {0, HistoryLimit + 2} : messages = PriorLog(n)
    /\ norm = NormIdle
    /\ comp = CompIdle
    /\ split = SplitIdle
    /\ del = NoDelete

NextChat ==
    \/ \E authed \in BOOLEAN, u \in {"u1"}, msg \in {"", "q"}, convGiven \in BOOLEAN,
          stream \in BOOLEAN : ChatPost(authed, u, msg, convGiven, stream)
    \/ \E ok \in BOOLEAN : ConvInsertResult(ok)
    \/ StoreUserMessage
    \/ \E ok \in BOOLEAN : QueryEmbedResult(ok)
    \/ \E ok \in BOOLEAN : Retrieve(ok)
    \/ Gate
    \/ StoreRefusal
    \/ \E ok \in BOOLEAN : LoadHistory(ok)
    \/ \E ok \in BOOLEAN : Generate(ok)
    \/ StreamStart
    \/ \E c \in Deltas : StreamFragment(c)
    \/ StreamEnd
    \/ StreamDone
    \/ StreamFail

SpecChat == InitChat /\ [][NextChat]_vars


\* ------------------------------------------------------------------------
\* Specification of the text normaliser applied to any short text
\* ------------------------------------------------------------------------
Texts == UNION {[1..n -> Chars] : n \in 0..MaxChars}

InitClean ==
    /\ IngestIdle
    /\ index = {}
    /\ sim = [k \in 1..MaxVectors |-> 0]
    /\ qry = NoQuery
    /\ gate = NoGate
    /\ chat = ChatIdle
    /\ messages = <<>>
    /\ \E text \in Texts : norm = [NormIdle EXCEPT !.pc = "given", !.text = text]
    /\ comp = CompIdle
    /\ split = SplitIdle
    /\ del = NoDelete

NextClean == CleanOnce \/ CleanAgain

SpecClean == InitClean /\ [][NextClean]_vars

\* ------------------------------------------------------------------------
\* Specification of the chunker: one text and one pair of options given to
\* chunkDocument
\* ------------------------------------------------------------------------
InitChunk ==
    /\ IngestIdle
    /\ index = {}
    /\ sim = [k \in 1..MaxVectors |-> 0]
    /\ qry = NoQuery
    /\ gate = NoGate
    /\ chat = ChatIdle
    /\ messages = <<>>
    /\ norm = NormIdle
    /\ comp = CompIdle
    /\ \E n \in 0..MaxSplitChars, opts \in ChunkOptions :
          split = [SplitIdle EXCEPT !.pc = "given", !.text = SplitText(n), !.opts = opts]
    /\ del = NoDelete

NextChunk == ChunkDocumentCall

SpecChunk == InitChunk /\ [][NextChunk]_vars

\* ------------------------------------------------------------------------
\* Specification of the vector deletion: the index holds vectors of two
\* owners, the same document ids under both, when one deleteDocumentVectors
\* call is made
\* ------------------------------------------------------------------------
InitDelete ==
    /\ IngestIdle
    /\ StoredIndex
    /\ qry = NoQuery
    /\ gate = NoGate
    /\ chat = ChatIdle
    /\ messages = <<>>
    /\ norm = NormIdle
    /\ comp = CompIdle
    /\ split = SplitIdle
    /\ \E d \in QueryDocIds, u \in UserIds :
          del = [NoDelete EXCEPT !.pc = "given", !.documentId = d, !.userId = u]

NextDelete == \E ok \in BOOLEAN : DeleteDocumentVectors(ok)

SpecDelete == InitDelete /\ [][NextDelete]_vars

\* ------------------------------------------------------------------------
\* Specification of the answer composer: one (query, sources, history) put to
\* both generators, in either order
\* ------------------------------------------------------------------------
ComposerSources ==
    {<<>>,
     <<[filename |-> "a.pdf", content |-> "c1", score |-> 900]>>,
     <<[filename |-> "a.pdf", content |-> "c1", score |-> 900],
       [filename |-> "b.pdf", content |-> "c2", score |-> 750]>>}

ComposerHistory(n) ==
    [k \in 1..n |-> ChatMessage(IF k % 2 = 1 THEN "user" ELSE "assistant",
                                <<"m", ToString(k)>>)]

InitCompose ==
    /\ IngestIdle
    /\ index = {}
    /\ sim = [k \in 1..MaxVectors |-> 0]
    /\ qry = NoQuery
    /\ gate = NoGate
    /\ chat = ChatIdle
    /\ messages = <<>>
    /\ norm = NormIdle
    /\ \E srcs \in ComposerSources, n \in {0, HistoryLimit + 1} :
          comp = [CompIdle EXCEPT !.pc = "given", !.query = "q", !.sources = srcs,
                                  !.history = ComposerHistory(n)]
    /\ split = SplitIdle
    /\ del = NoDelete

NextCompose ==
    \/ \E ok \in BOOLEAN, text \in Answers : GenerateResponse(ok, text)
    \/ \E ok \in BOOLEAN, deltas \in DeltaRuns : GenerateStreamingResponse(ok, deltas)

SpecCompose == InitCompose /\ [][NextCompose]_vars

\* ------------------------------------------------------------------------
\* Specification of the embedding client called directly
\* ------------------------------------------------------------------------

TextLists == {[k \in 1..n |-> k] : n \in 0..MaxTexts}

InitEmbed ==
    /\ documents = [d \in DocIds |-> NoDoc]
    /\ chunkRecs = {}
    /\ index = {}
    /\ indexStatus = "ready"
    /\ nextVid = 0
    /\ ing = [d \in DocIds |-> IngIdle]
    /\ ups = [d \in DocIds |-> UpsIdle]
    /\ pending = [d \in DocIds |-> {}]
    /\ \E texts \in TextLists, bs \in BatchSizes :
          emb = [c \in Callers |->
                    IF c = "direct"
                    THEN [EmbIdle EXCEPT !.pc = "call", !.texts = texts, !.batchSize = bs]
                    ELSE EmbIdle]
    /\ sim = [k \in 1..MaxVectors |-> 0]
    /\ qry = NoQuery
    /\ gate = NoGate
    /\ chat = ChatIdle
    /\ messages = <<>>
    /\ norm = NormIdle
    /\ comp = CompIdle
    /\ split = SplitIdle
    /\ del = NoDelete

NextEmbed ==
    \/ EmbedCall("direct")
    \/ EmbedHead("direct")
    \/ \E kind \in RespKinds : EmbedResponse("direct", kind)
    \/ EmbedBackoffDone("direct")
    \/ EmbedPauseDone("direct")

SpecEmbed == InitEmbed /\ [][NextEmbed]_vars

\* every step of the call that can be taken is taken: requests answer or
\* are aborted by their 30 s timer, timers fire, the loop goes on
SpecEmbedFair == SpecEmbed /\ WF_vars(NextEmbed)

\* every request to the provider answers or is aborted by its 30 s timer, and
\* the backoff timers fire
SpecEmbedLive ==
    /\ SpecEmbed
    /\ WF_vars(\E kind \in RespKinds : EmbedResponse("direct", kind))
    /\ WF_vars(EmbedBackoffDone("direct"))

\* ------------------------------------------------------------------------
\* Specification of upload, ingestion and deletion
\* ------------------------------------------------------------------------
Init ==
    /\ documents = [d \in DocIds |-> NoDoc]
    /\ chunkRecs = {}
    /\ index = {}
    /\ indexStatus = "ready"
    /\ nextVid = 0
    /\ ing = [d \in DocIds |-> IngIdle]
    /\ ups = [d \in DocIds |-> UpsIdle]
    /\ pending = [d \in DocIds |-> {}]
    /\ emb = [c \in Callers |-> EmbIdle]
    /\ sim = [k \in 1..MaxVectors |-> 0]
    /\ qry = NoQuery
    /\ gate = NoGate
    /\ chat = ChatIdle
    /\ messages = <<>>
    /\ norm = NormIdle
    /\ comp = CompIdle
    /\ split = SplitIdle
    /\ del = NoDelete

IngestStep(d) ==
    \/ \E applied \in BOOLEAN : ProgressExtract(d, applied)
    \/ \E ok \in BOOLEAN : ExtractDone(d, ok)
    \/ ExtractTimeout(d)
    \/ \E applied \in BOOLEAN : ProgressChunk(d, applied)
    \/ ChunkDone(d)
    \/ \E applied \in BOOLEAN : ProgressEmbed(d, applied)
    \/ EmbedHead(d)
    \/ \E kind \in RespKinds : EmbedResponse(d, kind)
    \/ EmbedBackoffDone(d)
    \/ EmbedPauseDone(d)
    \/ EmbedDone(d)
    \/ \E applied \in BOOLEAN : ProgressUpsert(d, applied)
    \/ UpsertDone(d)
    \/ UpsertTimeout(d)
    \/ \E applied \in BOOLEAN : ProgressChunks(d, applied)
    \/ \E ok \in BOOLEAN : InsertResult(d, ok)
    \/ \E applied \in BOOLEAN : ProgressFinal(d, applied)
    \/ \E ok \in BOOLEAN : CompleteResult(d, ok)
    \/ \E applied \in BOOLEAN : FailWriteResult(d, applied)

UpsertStep(d) ==
    \/ \E ok \in BOOLEAN : UpsGetIndex(d, ok)
    \/ \E outcome \in {"ok", "error", "timeout"}, landed \in BOOLEAN :
          UpsBatchResult(d, outcome, landed)
    \/ UpsWaitDone(d)

Next ==
    \/ \E d \in SoloDocs, req \in UploadRequests : UploadRejected(d, req)
    \/ \E d \in SoloDocs, u \in Uploaders, req \in UploadRequests, file \in Files,
          keys \in KeyStates, applied \in BOOLEAN : Upload(d, u, req, file, keys, applied)
    \/ \E d \in SoloDocs : IngestStep(d)
    \/ \E d \in SoloDocs : UpsertStep(d)
    \/ \E d \in SoloDocs : \E note \in pending[d], applied \in BOOLEAN :
          LandProgress(d, note, applied)
    \/ \E d \in SoloDocs, u \in Uploaders, cascade \in BOOLEAN : DeleteDocument(d, u, cascade)

Spec == Init /\ [][Next]_vars

\* every awaited call of the ingestion and of upsertVectors settles (answers,
\* fails or hits its timer); the timers of the two races always fire
SpecLive ==
    /\ Spec
    /\ \A d \in SoloDocs : WF_vars(IngestStep(d)) /\ WF_vars(UpsertStep(d))

\* ------------------------------------------------------------------------
\* Specification of two documents ingesting side by side, from a provider
\* account where the index of the configured name may not exist yet
\* ------------------------------------------------------------------------
PairFiles == {[blank |-> FALSE, n |-> 1]}
PairRequests == {[authed |-> TRUE, hasFile |-> TRUE, size |-> MaxUploadBytes,
                  type |-> "text/plain"]}
\* d1 belongs to u1; d2 to the same or to another owner
PairOwners(d) == IF d = "d1" THEN {"u1"} ELSE UserIds

InitPair ==
    /\ documents = [d \in DocIds |-> NoDoc]
    /\ chunkRecs = {}
    /\ index = {}
    /\ indexStatus \in {"absent", "ready"}
    /\ nextVid = 0
    /\ ing = [d \in DocIds |-> IngIdle]
    /\ ups = [d \in DocIds |-> UpsIdle]
    /\ pending = [d \in DocIds |-> {}]
    /\ emb = [c \in Callers |-> EmbIdle]
    /\ sim = [k \in 1..MaxVectors |-> 0]
    /\ qry = NoQuery
    /\ gate = NoGate
    /\ chat = ChatIdle
    /\ messages = <<>>
    /\ norm = NormIdle
    /\ comp = CompIdle
    /\ split = SplitIdle
    /\ del = NoDelete

PairIngestStep(d) ==
    \/ ProgressExtract(d, TRUE)
    \/ ExtractDone(d, TRUE)
    \/ ProgressChunk(d, TRUE)
    \/ ChunkDone(d)
    \/ ProgressEmbed(d, TRUE)
    \/ EmbedHead(d)
    \/ EmbedResponse(d, "ok")
    \/ EmbedDone(d)
    \/ ProgressUpsert(d, TRUE)
    \/ UpsertDone(d)
    \/ ProgressChunks(d, TRUE)
    \/ \E ok \in BOOLEAN : InsertResult(d, ok)
    \/ ProgressFinal(d, TRUE)
    \/ \E ok \in BOOLEAN : CompleteResult(d, ok)
    \/ \E applied \in BOOLEAN : FailWriteResult(d, applied)

PairUpsertStep(d) ==
    \/ \E ok \in BOOLEAN : UpsGetIndex(d, ok)
    \/ \E ok \in BOOLEAN : UpsCreateIndex(d, ok)
    \/ UpsIndexWaitDone(d)
    \/ \E outcome \in {"ok", "error"} : UpsBatchResult(d, outcome, outcome = "ok")
    \/ UpsWaitDone(d)

NextPair ==
    \/ \E d \in DocIds : \E u \in PairOwners(d), req \in PairRequests, file \in PairFiles :
          Upload(d, u, req, file, "ok", TRUE)
    \/ \E d \in DocIds : PairIngestStep(d)
    \/ \E d \in DocIds : PairUpsertStep(d)
    \/ \E d \in DocIds : \E note \in pending[d] : LandProgress(d, note, TRUE)
    \/ IndexReady

SpecPair == InitPair /\ [][NextPair]_vars

\* ------------------------------------------------------------------------
\* Claims about the embedding client (checked under SpecEmbed)
\* ------------------------------------------------------------------------
Direct == emb["direct"]

\* every request carries at most batchSize texts
SubBatchWithinSize == Direct.pc = "fetch" => Len(Direct.batch) <= Direct.batchSize

\* a normal return carries one vector per text, the k-th for the k-th text
ReturnsAllInOrder == Direct.pc = "returned" => Direct.acc = EmbedAll(Direct.texts)

\* a response with a wrong number of vectors is never taken as a sub-batch
\* result: the attempt has failed (backoff, next attempt, or the call threw)
MismatchNeverAccepted ==
    Direct.lastKind = "badcount" => Direct.pc \in {"backoff", "fetch", "threw"}

C8_FailFastOn4xx == Direct.lastKind = "4xx" => Direct.pc = "threw"

\* ------------------------------------------------------------------------
\* Claims about the Document lifecycle (checked under Spec / SpecLive)
\* ------------------------------------------------------------------------
Started(d) == ing[d].pc \notin {"idle", "not_started"}
Finished(d) == ing[d].pc = "done"
ChunksOf(d) == {r \in chunkRecs : r.document_id = d}
VectorsOf(d) == {v \in index : v.documentId = d}

\* C1: once a Document's status is completed or failed, no step of the upload
\* handler or of the ingestion changes the status again.
C1_TerminalStatusStays ==
    [][\A d \in DocIds :
          (Terminal(d) /\ Exists(d)') => documents'[d].status = documents[d].status]_vars

\* C1 witness: a progress update landed on a completed Document (a write
\* after the terminal state) and the status is still completed
C1_Witness ==
    \E d \in DocIds :
        /\ documents[d].status = "completed"
        /\ documents[d].metadata.kind = "progress"

\* C2 as stated: whichever step fails, including the failure-status update
\* itself, a started ingestion that has ended left its Document completed or
\* failed.
C2_AlwaysLeavesProcessing ==
    \A d \in DocIds : (Finished(d) /\ Exists(d)) => Terminal(d)

\* C2 amended: every started ingestion eventually ends, and at its end the
\* Document is completed or failed unless the failure-status update itself
\* was rejected (the Document then stays in processing).
C2_EndsWithTerminalWriteAttempted ==
    \A d \in DocIds :
        /\ [](Started(d) => <>Finished(d))
        /\ []((Finished(d) /\ Exists(d)) =>
                (Terminal(d) \/ ing[d].failWrite = "rejected"))

\* C2 witness: an ingestion ended after its failure-status update was
\* rejected, the Document still in processing
C2_Witness ==
    \E d \in DocIds :
        /\ Finished(d)
        /\ documents[d].status = "processing"
        /\ ing[d].failWrite = "rejected"
        /\ ing[d].err = "vector upsert timeout"

\* C6: a completed Document has as many chunk records as total_chunks and as
\* chunks produced, one vector per chunk, and the record with chunk_index i
\* names the vector with chunkIndex i and the same content.
C6_CompletedIsConsistent ==
    \A d \in DocIds :
        documents[d].status = "completed" =>
            LET n == Len(ChunkDocument(ing[d].file))
            IN /\ Cardinality(ChunksOf(d)) = n
               /\ documents[d].total_chunks = n
               /\ Cardinality(VectorsOf(d)) = n
               /\ {r.chunk_index : r \in ChunksOf(d)} = 0..(n - 1)
               /\ \A r \in ChunksOf(d) :
                     \E v \in VectorsOf(d) :
                         /\ v.id = r.vector_id
                         /\ v.chunkIndex = r.chunk_index
                         /\ v.content = r.content
                         /\ v.values = Embed(r.content)

\* C6 witness: a Document of 101 chunks (two upsert batches, two insert
\* batches, two embedding sub-batches) is completed
C6_Witness ==
    \E d \in DocIds :
        /\ documents[d].status = "completed"
        /\ documents[d].total_chunks = UpsertBatchSize + 1
        /\ Cardinality(VectorsOf(d)) = UpsertBatchSize + 1

\* C10 as stated: once a Document is completed or failed, no later write of
\* the ingestion changes any field of its row.
C10_NoWriteAfterTerminal ==
    [][\A d \in DocIds :
          (Terminal(d) /\ Exists(d)') => documents'[d] = documents[d]]_vars

\* C11: the upload request answers 201 with the Document in processing
\* without waiting for the ingestion: the response is there while the
\* ingestion has not ended, it stays what it was whatever the ingestion
\* does, and a failure inside processDocumentAsync neither changes it into an
\* error response nor rejects the promise the request holds.
C11_UploadAnswersWithoutWaiting ==
    \A d \in DocIds :
        /\ Started(d) => ing[d].response = UploadResponse(201, "processing")
        /\ ing[d].promise # "rejected"
        /\ (Finished(d) /\ ing[d].err # "") =>
              (ing[d].response.status = 201 /\ ing[d].promise = "fulfilled")

\* C11 witness: the 201 response is out, the ingestion has later failed and
\* the Document is in failed.
C11_Witness ==
    \E d \in DocIds :
        /\ ing[d].response = UploadResponse(201, "processing")
        /\ Finished(d) /\ ing[d].err # ""
        /\ documents[d].status = "failed"

\* the input of the ingestion is empty: the cleaned text is blank, or the
\* splitter makes no chunk of it
EmptyInput(d) == ing[d].file.blank \/ ing[d].file.n = 0

\* the extraction delivered its text (neither failed nor timed out)
Extracted(d) ==
    /\ ing[d].pc \notin {"idle", "not_started", "p_extract", "extract"}
    /\ ing[d].err \notin {"extraction failed", "extraction timeout"}

EmbedIssued(d) == emb[d].nreq > 0 \/ "embed" \in ing[d].reached
UpsertIssued(d) == "upsert" \in ing[d].reached \/ ups[d].pc # "idle"
InsertIssued(d) == "insert" \in ing[d].reached \/ ChunksOf(d) # {}

FailedWithError(d) ==
    /\ documents[d].status = "failed"
    /\ documents[d].metadata.kind = "failed"
    /\ documents[d].metadata.error = ing[d].err
    /\ ing[d].err # ""

\* C12 (as stated): when the extracted text is blank or the chunker yields no
\* chunk, the ingestion ends with the Document in failed, the error in its
\* metadata, and no embedding request, vector upsert or chunk insert issued.
C12_EmptyEndsFailed ==
    \A d \in DocIds :
        (Extracted(d) /\ EmptyInput(d)) =>
            /\ ~EmbedIssued(d) /\ ~UpsertIssued(d) /\ ~InsertIssued(d)
            /\ (Finished(d) /\ Exists(d)) => FailedWithError(d)

\* C12 (amended): with such an input no embedding request, vector upsert or
\* chunk insert is ever issued, the ingestion ends with an error after
\* issuing the failed update, and the Document is in failed with the error in
\* its metadata whenever that update was applied.
C12_EmptyFailsBeforeEmbedding ==
    \A d \in DocIds :
        (Extracted(d) /\ EmptyInput(d)) =>
            /\ ~EmbedIssued(d) /\ ~UpsertIssued(d) /\ ~InsertIssued(d)
            /\ ing[d].pc \in {"p_chunk", "chunk", "catch", "done"}
            /\ ing[d].file.blank => ing[d].pc \in {"catch", "done"}
            /\ ing[d].pc \in {"catch", "done"} =>
                  ing[d].err \in {"empty document", "no chunks"}
            /\ Finished(d) => ing[d].failWrite \in {"applied", "rejected"}
            /\ (Finished(d) /\ Exists(d) /\ ing[d].failWrite = "applied") =>
                  FailedWithError(d)

\* C12 witness: a text that is not blank but gives no chunk has ended in failed.
C12_Witness ==
    \E d \in DocIds :
        /\ ~ing[d].file.blank /\ ing[d].file.n = 0
        /\ Finished(d) /\ FailedWithError(d)
        /\ ing[d].err = "no chunks"

\* the embedding step is over and did not give one vector per chunk
EmbeddingsDiffer(d) ==
    /\ "embedded" \in ing[d].reached
    /\ Len(ing[d].embeddings) # Len(ing[d].chunks)

\* C13 (as stated): a Document whose embeddings differ in number from its
\* chunks never reaches completed; the ingestion ends in failed and no
\* vector upsert or chunk insert is issued.
C13_MismatchEndsFailed ==
    \A d \in DocIds :
        EmbeddingsDiffer(d) =>
            /\ documents[d].status # "completed"
            /\ ~UpsertIssued(d) /\ ~InsertIssued(d)
            /\ (Finished(d) /\ Exists(d)) => documents[d].status = "failed"

\* C13 (amended): such a Document never reaches completed, no vector upsert
\* or chunk insert is issued for it, and the ingestion ends with an error
\* after issuing the failed update, which leaves the Document in failed
\* whenever it was applied.
C13_MismatchNeverCompletes ==
    \A d \in DocIds :
        /\ documents[d].status = "completed" =>
              Len(ing[d].embeddings) = Len(ing[d].chunks)
        /\ EmbeddingsDiffer(d) =>
              /\ documents[d].status # "completed"
              /\ ~UpsertIssued(d) /\ ~InsertIssued(d)
              /\ ing[d].pc \in {"catch", "done"} /\ ing[d].err # ""
              /\ Finished(d) => ing[d].failWrite \in {"applied", "rejected"}
              /\ (Finished(d) /\ Exists(d) /\ ing[d].failWrite = "applied") =>
                    documents[d].status = "failed"

\* C13 witness: the provider answered the last attempt with a wrong number
\* of vectors after a first sub-batch was embedded, and the ingestion has
\* ended with the Document in failed.
C13_Witness ==
    \E d \in DocIds :
        /\ EmbeddingsDiffer(d)
        /\ Len(ing[d].chunks) > EmbedBatchSize
        /\ Finished(d)
        /\ documents[d].status = "failed"

\* C9: after a document is deleted through the delete endpoint, no chunk
\* record and no index entry with its document id and owner id remains, so a
\* query scoped to that document id returns no match.
C9_DeleteRemovesChunksAndVectors ==
    \A d \in DocIds :
        (~Exists(d) /\ ing[d].pc # "idle") =>
            /\ ChunksOf(d) = {}
            /\ {v \in index : v.documentId = d /\ v.userId = ing[d].user} = {}
            /\ QueryVectors(index, [k \in {v.id : v \in index} |-> 900], ing[d].user,
                            QueryOpts(FALSE, 0, FALSE, 0, TRUE, {d})) = <<>>

\* ------------------------------------------------------------------------
\* Claims about queryVectors (checked under SpecQuery)
\* ------------------------------------------------------------------------
\* the vector of the index a match was made from
StoredAs(m) ==
    CHOOSE v \in index : v.id = m.id

\* C3: whatever topK, minScore and documentIds are given (absent, empty or
\* not), every match queryVectors returns is a stored vector of the requesting
\* user and carries that user's id in its metadata, whatever other owners'
\* vectors the index holds.
C3_OwnerIsolation ==
    qry.called =>
        \A k \in 1..Len(qry.result) :
            /\ qry.result[k].metadata.userId = qry.user
            /\ \E v \in index : v.id = qry.result[k].id
            /\ StoredAs(qry.result[k]).userId = qry.user

\* C3 witness: a query scoped to a document returns a match while another
\* owner's vector of the same document, scored at least as high, is stored.
C3_Witness ==
    /\ qry.called
    /\ Len(qry.result) > 0
    /\ qry.opts.idsGiven /\ qry.opts.ids # {}
    /\ \E v \in index :
          /\ v.userId # qry.user
          /\ v.documentId \in qry.opts.ids
          /\ sim[v.id] >= qry.result[1].score

\* what the provider answers to the query made, and the options in force
ProviderMatches ==
    ProviderQuery(index, sim, BuildFilter(qry.user, qry.opts),
                  IF qry.opts.topKGiven THEN qry.opts.topK ELSE DefaultTopK)

MinScoreInForce == IF qry.opts.minGiven THEN qry.opts.minScore ELSE DefaultMinScore

\* C16: queryVectors returns exactly the provider's matches whose score is
\* at least minScore, none dropped and none below it kept, also for minScore
\* 0 and for a match of score 0; at most topK of them, in descending order
\* of similarity.
C16_ExactlyMatchesAtOrAboveMinScore ==
    qry.called =>
        /\ qry.result = SelectSeq(ProviderMatches, LAMBDA m : m.score >= MinScoreInForce)
        /\ Len(qry.result) <= (IF qry.opts.topKGiven THEN qry.opts.topK ELSE DefaultTopK)
        /\ \A k \in 1..(Len(qry.result) - 1) :
              qry.result[k].score >= qry.result[k + 1].score

\* ------------------------------------------------------------------------
\* Claims about analyzeQuery (checked under SpecGate)
\* ------------------------------------------------------------------------
RECURSIVE Total(_, _)
Total(sources, k) == IF k = 0 THEN 0 ELSE sources[k].score + Total(sources, k - 1)

C14_ConfidenceRounded ==
    (gate.done /\ Len(gate.sources) > 0) =>
        LET n == Len(gate.sources)
            total == Total(gate.sources, n)
            r == gate.result
        IN /\ IF total >= 950 * n
              THEN r.confNum = 95 * r.confDen
              ELSE r.confNum * 10 * n = total * r.confDen
           /\ 0 <= r.confNum /\ r.confNum <= 95 * r.confDen
           /\ [k \in 1..n |-> gate.sources[k].score] = <<900, 800, 750>> =>
                 r.confNum = 82 * r.confDen

\* ------------------------------------------------------------------------
\* Claims about cleanLegalText (checked under SpecClean)
\* ------------------------------------------------------------------------
\* C15: cleanLegalText is idempotent, also on texts that mix white space with
\* zero-width characters: cleaning a cleaned text gives the cleaned text.
C15_CleanIsIdempotent ==
    norm.pc = "twice" => norm.twice = norm.once

\* ------------------------------------------------------------------------
\* Claims about the chat turn (checked under SpecChat)
\* ------------------------------------------------------------------------
GateSaidNo == chat.gated /\ ~chat.analysis.canAnswer

Conversation ==
    LET own == SelectSeq(messages, LAMBDA m : m.conversation_id = chat.convId)
    IN [k \in 1..Len(own) |-> [role |-> own[k].role, content |-> own[k].content]]

\* the n most recent elements of a sequence, oldest first
MostRecent(seq, n) ==
    IF Len(seq) <= n THEN seq ELSE SubSeq(seq, Len(seq) - n + 1, Len(seq))

\* C17: whatever number of messages the conversation holds, the history the
\* answer composer is given (the select succeeded) holds at most 6 messages,
\* the most recent ones of the conversation in chronological order, and the
\* composer sends the model that history.
C17_HistoryIsMostRecentSix ==
    /\ (chat.pc \in {"generate", "streamStart", "streaming"} /\ chat.history # <<>>) =>
          /\ Len(chat.history) <= 6
          /\ chat.history = MostRecent(Conversation, 6)
    /\ chat.llmCalls > 0 =>
          /\ Len(chat.prompt) <= 6
          /\ chat.prompt = MostRecent(chat.history, 6)

\* the assistant messages stored after the turn's user message
Replies ==
    LET own == SelectSeq(messages, LAMBDA m : m.conversation_id = chat.convId)
        asked == {k \in 1..Len(own) : own[k].role = "user" /\ own[k].content = <<chat.message>>}
    IN IF asked = {} THEN <<>>
       ELSE SelectSeq(SubSeq(own, (CHOOSE k \in asked : \A x \in asked : x <= k) + 1, Len(own)),
                      LAMBDA m : m.role = "assistant")

ChunksSent == SelectSeq(chat.events, LAMBDA e : e.type = "chunk")

C19_StreamFailureAppendsErrorEvent ==
    chat.streamState = "errored" =>
        LET n == Len(chat.events)
        IN /\ n = Len(Yielded(chat.deltas)) + 1
           /\ chat.events[n].type = "error"
           /\ \A k \in 1..(n - 1) : chat.events[k] = ChunkEvent(Yielded(chat.deltas)[k])

\* C20: a turn that stored its user message and is over, however it ended,
\* has left an assistant message after that user message in the conversation.
C20_EveryQuestionHasAReply ==
    (chat.pc = "done" /\ chat.message # "" /\ chat.convId # "") => Len(Replies) > 0

\* ------------------------------------------------------------------------
\* Claims about the answer composer (checked under SpecCompose)
\* ------------------------------------------------------------------------
BothAnswered == comp.plain.called /\ comp.plain.ok /\ comp.streamed.called /\ comp.streamed.ok

\* C21: for identical (query, sources, history) and a deterministic language
\* model, both generators send the model the same message list and the
\* concatenation of the fragments generateStreamingResponse yields equals the
\* content generateResponse returns.
C21_StreamedEqualsReturned ==
    BothAnswered =>
        /\ comp.plain.request.messages = comp.streamed.request.messages
        /\ Spelled(comp.streamed.out) = comp.plain.out

\* ------------------------------------------------------------------------
\* Claims about the upload request (checked under Spec)
\* ------------------------------------------------------------------------
ClientError(status) == status \in 400..499

\* C22: an upload whose file is larger than 10 MB or whose declared media
\* type is outside the three allowed types is answered with a client error,
\* and that request creates no Document record and starts no ingestion.
C22_InvalidUploadRejected ==
    \A d \in DocIds :
        (ing[d].oversize \/ ing[d].offType) =>
            /\ ClientError(ing[d].response.status)
            /\ ~Exists(d)
            /\ ing[d].pc = "idle"
            /\ ing[d].promise = "none"
            /\ ing[d].reached = {}

\* C22 witness: a file one byte above the limit, of an allowed type, was
\* answered 400 and left no row behind.
C22_Witness ==
    \E d \in DocIds :
        /\ ing[d].oversize /\ ~ing[d].offType
        /\ ing[d].response.status = 400
        /\ ~Exists(d)

\* ------------------------------------------------------------------------
\* Claims about the order of the ingestion steps (checked under Spec)
\* ------------------------------------------------------------------------
\* chunkDocument has returned its pieces to the ingestion of d
Chunked(d) == ing[d].chunks # <<>> /\ ing[d].chunks = ChunkDocument(ing[d].file)
\* generateEmbeddingsBatch has returned one embedding per chunk
AllEmbedded(d) ==
    /\ "embedded" \in ing[d].reached
    /\ Len(ing[d].embeddings) = Len(ing[d].chunks)
    /\ emb[d].pc = "idle"
\* upsertVectors has returned one vector id per chunk to the ingestion
AllUpserted(d) ==
    /\ ups[d].pc = "done"
    /\ ing[d].vectorIds = ups[d].ids
    /\ Len(ing[d].vectorIds) = Len(ing[d].chunks)
\* every batch of chunk records was inserted
AllInserted(d) == "insert" \in ing[d].reached /\ ing[d].i >= Len(ing[d].chunks)

\* C23: within one document's ingestion no embedding request is made before
\* chunking has finished, no vector upsert before all embeddings were
\* obtained, no chunk-record insert before the vector upsert has returned all
\* vector ids, and the status becomes completed only after every batch of
\* chunk records was inserted.
C23_StepsInOrder ==
    \A d \in DocIds :
        /\ (emb[d].pc # "idle" \/ EmbedIssued(d)) => Chunked(d)
        /\ (UpsertIssued(d) \/ VectorsOf(d) # {}) => Chunked(d) /\ AllEmbedded(d)
        /\ InsertIssued(d) => Chunked(d) /\ AllEmbedded(d) /\ AllUpserted(d)
        /\ documents[d].status = "completed" =>
              Chunked(d) /\ AllEmbedded(d) /\ AllUpserted(d) /\ AllInserted(d)

\* C23 witness: a document of two upsert batches and two insert batches
\* reached completed.
C23_Witness ==
    \E d \in DocIds :
        /\ documents[d].status = "completed"
        /\ Len(ing[d].chunks) > UpsertBatchSize
        /\ Cardinality(ChunksOf(d)) = Len(ing[d].chunks)
        /\ Cardinality(VectorsOf(d)) = Len(ing[d].chunks)

\* ------------------------------------------------------------------------
\* Claims about a failing vector upsert (checked under Spec)
\* ------------------------------------------------------------------------
\* a batch of upsertVectors failed on each of its attempts
BatchFailed(d) == ups[d].pc = "failed" /\ ups[d].ids # <<>>
\* the 120 s timer of the ingestion won its race against upsertVectors
UpsertTimedOut(d) == ing[d].err = "vector upsert timeout"

\* C24 (as stated): when a batch of the vector upsert fails on every attempt
\* or the upsert step exceeds its timeout, the ingestion ends with the
\* Document in failed and never in completed, and no chunk record is
\* persisted for it.
C24_UpsertFailureEndsFailed ==
    \A d \in DocIds :
        (BatchFailed(d) \/ UpsertTimedOut(d)) =>
            /\ documents[d].status # "completed"
            /\ ChunksOf(d) = {}
            /\ (Finished(d) /\ Exists(d)) => documents[d].status = "failed"

\* C24 (amended): in that case the Document never reaches completed, no
\* chunk-record insert is issued and no chunk record is persisted for it,
\* and the ingestion ends after issuing the failed update, which leaves the
\* Document in failed whenever it was applied.
C24_UpsertFailureNeverCompletes ==
    \A d \in DocIds :
        (BatchFailed(d) \/ UpsertTimedOut(d)) =>
            /\ documents[d].status # "completed"
            /\ ~InsertIssued(d)
            /\ ChunksOf(d) = {}
            /\ ing[d].pc \in {"await_upsert", "catch", "done"}
            /\ Finished(d) =>
                  /\ ing[d].err \in {"vector upsert failed", "vector upsert timeout"}
                  /\ ing[d].failWrite \in {"applied", "rejected"}
            /\ (Finished(d) /\ Exists(d) /\ ing[d].failWrite = "applied") =>
                  documents[d].status = "failed"

\* C24 witness: the second batch failed on every attempt after the first
\* was stored; the ingestion ended with the Document in failed, the vectors
\* of the first batch still in the index.
C24_Witness ==
    \E d \in DocIds :
        /\ BatchFailed(d)
        /\ ups[d].i = UpsertBatchSize
        /\ Cardinality(VectorsOf(d)) = UpsertBatchSize
        /\ Finished(d)
        /\ documents[d].status = "failed"
        /\ ChunksOf(d) = {}

\* ------------------------------------------------------------------------
\* Claims about two ingestions side by side (checked under SpecPair)
\* ------------------------------------------------------------------------
\* what each ingestion wrote carries its own document id and owner id
WritesCarryOwnIds ==
    /\ \A v \in index :
          /\ v.id \in Range(ups[v.documentId].ids)
          /\ v.userId = ing[v.documentId].user
    /\ \A r \in chunkRecs : r.vector_id \in Range(ups[r.document_id].ids)
\* no vector id was drawn twice
VectorIdsDistinct ==
    /\ \A d, e \in DocIds : d # e => Range(ups[d].ids) \cap Range(ups[e].ids) = {}
    /\ \A v, w \in index : v.id = w.id => v = w
\* the ingestion of d failed on createIndex because the name had been taken
\* since its own listIndexes, that is by the other ingestion
FailedOnOthersIndex(d) == ups[d].conflict /\ ing[d].err = "vector upsert failed"

\* C25: for two documents ingesting concurrently, every vector and chunk
\* record written carries the ids of the ingestion that wrote it, vector ids
\* never collide, and a document's terminal status depends only on the
\* outcomes of its own steps: no ingestion fails because of what the other
\* one did.
C25_IngestionsDoNotInterfere ==
    /\ WritesCarryOwnIds
    /\ VectorIdsDistinct
    /\ \A d \in DocIds : ~FailedOnOthersIndex(d)

\* ------------------------------------------------------------------------
\* Further claims about the embedding client (checked under SpecEmbed)
\* ------------------------------------------------------------------------
Called == Direct.pc \notin {"idle", "call"}

\* C26: generateEmbeddingsBatch called with an empty list of texts returns an
\* empty list and sends no request to the embedding provider.
C26_EmptyListNoRequest ==
    (Called /\ Direct.texts = <<>>) =>
        /\ Direct.pc = "returned"
        /\ Direct.acc = <<>>
        /\ Direct.nreq = 0
        /\ Direct.nprog = 0

\* C26 witness: the call with no texts (and a batch size of 0) has returned.
C26_Witness ==
    /\ Called
    /\ Direct.texts = <<>>
    /\ Direct.batchSize = 0
    /\ Direct.pc = "returned"

\* ------------------------------------------------------------------------
\* Claims about progress updates (checked under Spec)
\* ------------------------------------------------------------------------
\* the ingestion awaits a progress update
ProgressPcs == {"p_extract", "p_chunk", "p_embed", "p_upsert", "p_chunks", "p_final"}

\* C27: a progress update that fails, awaited or issued from the embedding
\* progress callback, never aborts the ingestion and never changes its
\* outcome: the ingestion goes on to its next step without an error, an
\* un-awaited update that lands or fails leaves the ingestion as it is, and an
\* ingestion that ended without an error left the Document completed.
C27_ProgressFailureIsHarmless ==
    /\ [][\A d \in DocIds :
             /\ (ing[d].pc \in ProgressPcs /\ ing'[d] # ing[d]) =>
                   /\ ing'[d].err = ""
                   /\ ing'[d].pc \notin ProgressPcs \cup {"catch", "done"}
             /\ (pending'[d] # pending[d] /\ pending'[d] \subseteq pending[d]) =>
                   /\ ing'[d] = ing[d]
                   /\ ups'[d] = ups[d]]_vars
    /\ [](\A d \in DocIds :
             (Finished(d) /\ ing[d].err = "" /\ Exists(d)) =>
                 documents[d].status = "completed")

\* C27 witness: the last progress update was rejected and the Document is
\* completed all the same.
C27_Witness ==
    \E d \in DocIds :
        /\ ing[d].finalNote = "rejected"
        /\ Finished(d)
        /\ ing[d].err = ""
        /\ documents[d].status = "completed"

\* ------------------------------------------------------------------------
\* Claims about the lazily created index (checked under SpecPair)
\* ------------------------------------------------------------------------
\* a batch of upsertVectors is with the provider
UpsertInFlight(d) == ups[d].pc = "upsert"

\* C28: getOrCreateIndex creates the index only when no index of the
\* configured name exists, and upsertVectors issues no upsert before the
\* index exists and has reported ready.
C28_UpsertOnlyIntoReadyIndex ==
    \A d \in DocIds :
        /\ ups[d].pc = "indexwait" => indexStatus # "absent"
        /\ UpsertInFlight(d) => indexStatus = "ready"

\* ------------------------------------------------------------------------
\* Claims about the retries of generateEmbeddings (checked under SpecEmbedLive)
\* ------------------------------------------------------------------------
\* generateEmbeddings is at work on a sub-batch: a request is out, or the
\* wait before the next attempt runs
InRetryLoop == Direct.pc \in {"fetch", "backoff"}

\* C29: generateEmbeddings makes at most `retries` (3) attempts for one
\* sub-batch and throws the last error after the last attempt failed;
\* between attempt k and attempt k + 1 it waits min(1000 * 2^(k-1), 5000) ms;
\* and when every request answers or times out the call of generateEmbeddings
\* ends.
C29_BoundedRetries ==
    /\ [](Direct.attempt <= EmbedRetries)
    /\ [](Direct.pc = "threw" =>
             /\ Direct.attempt = EmbedRetries
             /\ Direct.lastKind \in RespKinds \ {"ok"})
    /\ [](Direct.pc = "backoff" =>
             /\ Direct.attempt < EmbedRetries
             /\ Direct.delay = Min(1000 * Pow2(Direct.attempt - 1), 5000))
    /\ [](InRetryLoop => <>(~InRetryLoop))

\* C29 witness: three attempts for one sub-batch, the last one timed out,
\* and the call threw.
C29_Witness ==
    /\ Direct.pc = "threw"
    /\ Direct.attempt = EmbedRetries
    /\ Direct.nreq = EmbedRetries
    /\ Direct.lastKind = "timeout"

\* ------------------------------------------------------------------------
\* Claims about what follows a failure (checked under Spec)
\* ------------------------------------------------------------------------
\* C30: once the ingestion has set its Document to failed it has stopped: no
\* vector is upserted and no chunk record is inserted for that Document
\* afterwards, also when the failure was a timer winning its race against an
\* operation that is still running.
C30_NothingWrittenAfterFailed ==
    [][\A d \in DocIds :
          (Finished(d) /\ documents[d].status = "failed") =>
              /\ VectorsOf(d)' \subseteq VectorsOf(d)
              /\ ChunksOf(d)' \subseteq ChunksOf(d)]_vars

\* text.slice(startChar, endChar) of the text a chunk was cut from
SliceOfChunk(c) == JsSlice(split.text, c.startChar, c.endChar)

\* C31: for every chunk chunkDocument returns, startChar and endChar are the
\* offsets of its content in the text given (text.slice(startChar, endChar) is
\* the content), and the chunkIndex values are 0..n-1 in output order.
C31_OffsetsLocateContent ==
    split.pc = "chunked" =>
        \A k \in 1..Len(split.chunks) :
            /\ split.chunks[k].chunkIndex = k - 1
            /\ SliceOfChunk(split.chunks[k]) = split.chunks[k].content

\* upsertVectors of d got its index and prepared at least one vector
UpsertBegun(d) == ups[d].ids # <<>>

\* the k-th vector upsertVectors prepared is stored
StoredAt(d, k) == Vectors(d, ups[d].ids)[k] \in index

\* batches in input order: the batch at hand starts at a multiple of 100,
\* every vector before it is stored and no vector after it is; one id per
\* embedding, ids pairwise different
BatchesInOrder(d) ==
    /\ ups[d].i % UpsertBatchSize = 0
    /\ Len(ups[d].ids) = Len(ing[d].embeddings)
    /\ \A j, k \in 1..Len(ups[d].ids) : j # k => ups[d].ids[j] # ups[d].ids[k]
    /\ \A k \in 1..Len(ups[d].ids) :
          /\ k <= ups[d].i => StoredAt(d, k)
          /\ StoredAt(d, k) => k <= ups[d].i + UpsertBatchSize

\* at most three attempts per batch; a batch that failed three times ends
\* the call; a call that returned has every vector stored
AttemptsBounded(d) ==
    /\ ups[d].pc \in {"upsert", "wait"} => ups[d].retries \in 1..UpsertRetries
    /\ ups[d].pc = "wait" => ups[d].retries < UpsertRetries
    /\ ups[d].pc = "failed" => ups[d].retries = 0 /\ ups[d].i < Len(ups[d].ids)
    /\ ups[d].pc = "done" =>
          /\ ups[d].i >= Len(ups[d].ids)
          /\ \A k \in 1..Len(ups[d].ids) : StoredAt(d, k)

\* the step is the successful attempt of the batch at hand
BatchSucceeds(d) ==
    /\ ups[d].pc = "upsert"
    /\ ups'[d].i = ups[d].i + UpsertBatchSize

\* C32 (as stated): upsertVectors sends consecutive batches of at most 100 in
\* input order, attempts each at most 3 times, waits 1 s after the first and
\* 2 s after the second failed attempt, throws after the third without
\* attempting a later batch, and on normal return every batch was written
\* exactly once and there is one id per embedding in input order.
C32_UpsertBatchesAsStated ==
    /\ [](\A d \in DocIds : UpsertBegun(d) =>
            /\ BatchesInOrder(d)
            /\ AttemptsBounded(d)
            /\ ups[d].pc = "wait" =>
                  ups[d].delay = 1000 * (UpsertRetries - ups[d].retries))
    /\ [][\A d \in DocIds :
            BatchSucceeds(d) =>
                \A k \in (ups[d].i + 1)..Min(ups[d].i + UpsertBatchSize, Len(ups[d].ids)) :
                    ~StoredAt(d, k)]_vars

\* C32 (amended): as above, but the wait is 2 s after the first and 3 s after
\* the second failed attempt, and on normal return every vector is stored
\* (a batch whose attempt timed out may have been written by that attempt
\* and again by the next).
C32_UpsertBatches ==
    \A d \in DocIds : UpsertBegun(d) =>
        /\ BatchesInOrder(d)
        /\ AttemptsBounded(d)
        /\ ups[d].pc = "wait" =>
              /\ ups[d].retries = 2 => ups[d].delay = 2000
              /\ ups[d].retries = 1 => ups[d].delay = 3000

\* C32 witness: the second batch waits for its third attempt after the first
\* batch was stored.
C32_Witness ==
    \E d \in DocIds :
        /\ ups[d].pc = "wait"
        /\ ups[d].retries = 1
        /\ ups[d].i = UpsertBatchSize
        /\ \A k \in 1..UpsertBatchSize : StoredAt(d, k)

\* insert(batch) of a batch of chunk records answered with an error
InsertFailed(d) == ing[d].err = "chunk insert failed"

\* the Document is completed only with a chunk record for every chunk
CompletedHasAllChunks(d) ==
    documents[d].status = "completed" =>
        Cardinality(ChunksOf(d)) = Len(ing[d].chunks)

\* only records of the batches before the failing one are persisted
OnlyEarlierBatches(d) ==
    \A r \in ChunksOf(d) : r.chunk_index < ing[d].i

\* C33 (as stated): when inserting a batch of chunk records fails, the
\* ingestion ends with the Document in failed; the Document is never
\* completed with fewer chunk records than chunks, and no later batch is
\* inserted after the failing one.
C33_InsertFailureEndsFailed ==
    \A d \in DocIds :
        /\ CompletedHasAllChunks(d)
        /\ InsertFailed(d) =>
              /\ documents[d].status # "completed"
              /\ OnlyEarlierBatches(d)
              /\ (Finished(d) /\ Exists(d)) => documents[d].status = "failed"

\* C33 (amended): in that case the Document never reaches completed, no
\* later batch is inserted, and the ingestion ends after issuing the failed
\* update, which leaves the Document in failed whenever it was applied.
C33_InsertFailureNeverCompletes ==
    \A d \in DocIds :
        /\ CompletedHasAllChunks(d)
        /\ InsertFailed(d) =>
              /\ documents[d].status # "completed"
              /\ OnlyEarlierBatches(d)
              /\ ing[d].pc \in {"catch", "done"}
              /\ Finished(d) => ing[d].failWrite \in {"applied", "rejected"}
              /\ (Finished(d) /\ Exists(d) /\ ing[d].failWrite = "applied") =>
                    documents[d].status = "failed"

\* C33 witness: the second batch of chunk records was refused after the first
\* was persisted; the ingestion ended with the Document in failed.
C33_Witness ==
    \E d \in DocIds :
        /\ InsertFailed(d)
        /\ ing[d].i = ChunkInsertBatchSize
        /\ Cardinality(ChunksOf(d)) = ChunkInsertBatchSize
        /\ Finished(d)
        /\ documents[d].status = "failed"

\* generateEmbeddingsBatch returned or threw
BatchCallEnded == Direct.pc \in {"returned", "threw"}

\* C34: generateEmbeddingsBatch terminates for every finite list of texts and
\* every batch size (0 and negative values included), when every provider
\* request answers or times out.
C34_BatchCallTerminates == <>BatchCallEnded

\* the vector belongs to the document and the owner the call names
Targeted(v) == v.documentId = del.documentId /\ v.userId = del.userId

\* C35: deleteDocumentVectors(documentId, userId) removes every vector whose
\* metadata has both that document id and that owner id, and leaves every
\* vector of another document or another owner as it was (vectors with the
\* same document id under another owner included); a call that throws
\* removed nothing.
C35_DeleteOnlyTargeted ==
    /\ del.pc = "done" => index = {v \in del.before : ~Targeted(v)}
    /\ del.pc = "failed" => index = del.before

\* C35 witness: the call removed a vector and left one with the same document
\* id under another owner and one of the same owner under another document.
C35_Witness ==
    /\ del.pc = "done"
    /\ \E v \in del.before : Targeted(v)
    /\ \E v \in index : v.documentId = del.documentId /\ v.userId # del.userId
    /\ \E v \in index : v.documentId # del.documentId /\ v.userId = del.userId

\* createIndex of the caller was refused because the index of that name had
\* been created since the caller's listIndexes
RefusedAsExisting(d) == ups[d].conflict

\* C36: when two callers use the vector index for the first time while it is
\* absent, in every interleaving the index is created at most once and
\* neither caller fails because the other one created it.
C36_IndexCreatedOnce ==
    /\ [][indexStatus' # indexStatus /\ indexStatus' = "initializing" =>
            indexStatus = "absent"]_vars
    /\ [](indexStatus # "absent" => [](indexStatus # "absent"))
    /\ [](\A d \in DocIds : ~RefusedAsExisting(d))

\* the POST created the row of d and answered 500: an API key was missing
KeyCheckFailed(d) == ing[d].user # "" /\ ing[d].response = UploadResponse(500, "")

\* processDocumentAsync was never called for d and nothing is stored for it
NeverIngested(d) ==
    /\ ing[d].pc = "not_started"
    /\ ing[d].reached = {}
    /\ ups[d] = UpsIdle
    /\ ChunksOf(d) = {}
    /\ VectorsOf(d) = {}

\* the row carries status failed and the name of the missing key
FailedForMissingKey(d) ==
    /\ documents[d].status = "failed"
    /\ documents[d].metadata.kind = "failed"
    /\ documents[d].metadata.error \in KeyStates \ {"ok"}

\* C37 (as stated): when the embedding or vector-index API key is not
\* configured, the upload handler sets the just-created Document to failed
\* with the reason in metadata, answers with a server error, and never starts
\* ingestion for it, so the Document has no chunks and no vectors.
C37_MissingKeyEndsFailed ==
    \A d \in DocIds :
        KeyCheckFailed(d) =>
            /\ NeverIngested(d)
            /\ Exists(d) => FailedForMissingKey(d)

\* C37 (amended): in that case the handler issues the failed update once,
\* answers 500 and never starts the ingestion; the Document has no chunks
\* and no vectors, and it is in failed with the reason in metadata unless the
\* update was rejected, in which case it stays in processing.
C37_MissingKeyNeverIngests ==
    \A d \in DocIds :
        KeyCheckFailed(d) =>
            /\ NeverIngested(d)
            /\ Exists(d) =>
                  \/ FailedForMissingKey(d)
                  \/ documents[d].status = "processing" /\ documents[d].metadata = NoMeta

\* C37 witness: the upload was answered 500 for a missing key and the
\* Document is in failed with the reason.
C37_Witness ==
    \E d \in DocIds :
        /\ KeyCheckFailed(d)
        /\ FailedForMissingKey(d)
        /\ NeverIngested(d)

====
